---- MODULE Spec2Model ----
(***************************************************************************)
(* A model of arboard's multi-format clipboard engine: the Wayland backend *)
(* (src/platform/linux/wayland.rs), the URI-list codec                     *)
(* (src/platform/linux/url.rs) and the macOS backend (src/platform/osx.rs).*)
(*                                                                         *)
(* Text and binary payloads are sequences of bytes (0..255).  A Rust       *)
(* String is a byte sequence that is valid UTF-8.  The native clipboard of *)
(* a selection is an "offer": a function from the MIME types on offer to   *)
(* the bytes served for each of them; the empty function is an empty       *)
(* clipboard.                                                              *)
(***************************************************************************)
EXTENDS Integers, Sequences, FiniteSets, TLC

VARIABLES
    platform,          \* "wayland" or "osx": chosen when the process starts
    primarySupported,  \* does the compositor offer the primary selection
    clip,              \* Wayland: [selection -> offer]
    pasteboard,        \* macOS: the general pasteboard, a sequence of items
    offered,           \* per selection: what this process offers, if it still does
    call               \* the last completed API call: arguments and result

vars == <<platform, primarySupported, clip, pasteboard, offered, call>>

(***************************************************************************)
(* Bytes, UTF-8 and the text constants of the source                        *)
(***************************************************************************)

\* "file://"
FILE_SCHEME == <<102, 105, 108, 101, 58, 47, 47>>

MIME_TEXT == "text/plain"
MIME_PNG == "image/png"
MIME_SVG == "image/svg+xml"
MIME_HTML == "text/html"
MIME_RTF == "text/rtf"
MIME_URL_LIST == "text/uri-list"

IsCont(b) == b >= 128 /\ b <= 191

\* String::from_utf8 / decode_utf8 accept exactly the well-formed sequences.
RECURSIVE ValidUtf8From(_, _)
ValidUtf8From(s, i) ==
    IF i > Len(s) THEN TRUE
    ELSE LET b == s[i] IN
        IF b < 128 THEN ValidUtf8From(s, i + 1)
        ELSE IF b >= 194 /\ b <= 223
            THEN /\ i + 1 <= Len(s)
                 /\ IsCont(s[i + 1])
                 /\ ValidUtf8From(s, i + 2)
        ELSE IF b >= 224 /\ b <= 239
            THEN /\ i + 2 <= Len(s)
                 /\ IsCont(s[i + 1])
                 /\ IsCont(s[i + 2])
                 /\ (b = 224 => s[i + 1] >= 160)
                 /\ (b = 237 => s[i + 1] <= 159)
                 /\ ValidUtf8From(s, i + 3)
        ELSE IF b >= 240 /\ b <= 244
            THEN /\ i + 3 <= Len(s)
                 /\ IsCont(s[i + 1])
                 /\ IsCont(s[i + 2])
                 /\ IsCont(s[i + 3])
                 /\ (b = 240 => s[i + 1] >= 144)
                 /\ (b = 244 => s[i + 1] <= 143)
                 /\ ValidUtf8From(s, i + 4)
        ELSE FALSE

ValidUtf8(s) == ValidUtf8From(s, 1)

StartsWith(s, p) == Len(s) >= Len(p) /\ SubSeq(s, 1, Len(p)) = p

(***************************************************************************)
(* Results and errors                                                       *)
(***************************************************************************)

Ok(v) == [st |-> "ok", val |-> v]
Err(e) == [st |-> "err", err |-> e]
IsOk(r) == r.st = "ok"

ContentNotAvailable == [kind |-> "ContentNotAvailable", description |-> ""]
ClipboardNotSupported == [kind |-> "ClipboardNotSupported", description |-> ""]
ConversionFailure == [kind |-> "ConversionFailure", description |-> ""]
Unknown(d) == [kind |-> "Unknown", description |-> d]

into_unknown(msg) == Unknown(msg)

(***************************************************************************)
(* The URI-list codec (url.rs)                                              *)
(***************************************************************************)

HexVal(c) ==
    IF c >= 48 /\ c <= 57 THEN c - 48
    ELSE IF c >= 65 /\ c <= 70 THEN c - 55
    ELSE IF c >= 97 /\ c <= 102 THEN c - 87
    ELSE -1

HexDigit(n) == IF n < 10 THEN 48 + n ELSE 55 + n

\* CONTROLS.add(b' ').remove(b'/'); bytes above 0x7F are always escaped.
ENCODE_SET(b) == (b < 32 \/ b = 127 \/ b = 32) /\ b # 47

RECURSIVE percent_encode(_)
percent_encode(s) ==
    IF s = <<>> THEN <<>>
    ELSE LET b == s[1] IN
        (IF b >= 128 \/ ENCODE_SET(b)
            THEN <<37, HexDigit(b \div 16), HexDigit(b % 16)>>
            ELSE <<b>>) \o percent_encode(Tail(s))

RECURSIVE percent_decode(_)
percent_decode(s) ==
    IF s = <<>> THEN <<>>
    ELSE IF /\ s[1] = 37
            /\ Len(s) >= 3
            /\ HexVal(s[2]) >= 0
            /\ HexVal(s[3]) >= 0
        THEN <<16 * HexVal(s[2]) + HexVal(s[3])>> \o percent_decode(SubSeq(s, 4, Len(s)))
        ELSE <<s[1]>> \o percent_decode(Tail(s))

encode_path_to_uri(path) == FILE_SCHEME \o percent_encode(path)

RECURSIVE trim_start_matches(_, _)
trim_start_matches(s, p) ==
    IF StartsWith(s, p) THEN trim_start_matches(SubSeq(s, Len(p) + 1, Len(s)), p) ELSE s

parse_uri_to_path(encoded_uri) ==
    LET encoded_path == trim_start_matches(encoded_uri, FILE_SCHEME)
        decoded == percent_decode(encoded_path)
    IN  IF ValidUtf8(decoded) THEN Ok(decoded)
        ELSE Err(into_unknown("failed to decode path"))

\* str::lines: split at "\n", drop the "\r" of a "\r\n", no final empty line.
StripCr(l) == IF l # <<>> /\ l[Len(l)] = 13 THEN SubSeq(l, 1, Len(l) - 1) ELSE l

RECURSIVE LinesFrom(_, _)
LinesFrom(text, cur) ==
    IF text = <<>> THEN (IF cur = <<>> THEN <<>> ELSE <<cur>>)
    ELSE IF text[1] = 10 THEN <<StripCr(cur)>> \o LinesFrom(Tail(text), <<>>)
    ELSE LinesFrom(Tail(text), Append(cur, text[1]))

Lines(text) == LinesFrom(text, <<>>)

\* The loop of parse_uri_list ending at the first line that does not begin
\* with the scheme, instead of going on to the next line.
RECURSIVE parse_lines_stops_at_other(_, _)
parse_lines_stops_at_other(ls, list) ==
    IF ls = <<>> THEN Ok(list)
    ELSE IF ~StartsWith(ls[1], FILE_SCHEME) THEN Ok(list)
    ELSE LET decoded == parse_uri_to_path(ls[1]) IN
        IF IsOk(decoded) THEN parse_lines_stops_at_other(Tail(ls), Append(list, decoded.val))
        ELSE decoded

RECURSIVE parse_lines(_, _)
parse_lines(ls, list) ==
    IF ls = <<>> THEN Ok(list)
    ELSE IF ~StartsWith(ls[1], FILE_SCHEME) THEN parse_lines(Tail(ls), list)
    ELSE LET decoded == parse_uri_to_path(ls[1]) IN
        IF IsOk(decoded) THEN parse_lines(Tail(ls), Append(list, decoded.val))
        ELSE decoded

parse_uri_list(text) == parse_lines(Lines(text), <<>>)

\* parse_plain_uri_list: String::from_utf8 of the bytes, then parse_uri_list.
parse_plain_uri_list(v) ==
    IF ValidUtf8(v) THEN parse_uri_list(v)
    ELSE Err(into_unknown("failed to convert file urls to utf-8"))

RECURSIVE JoinLines(_)
JoinLines(ls) ==
    IF ls = <<>> THEN <<>>
    ELSE IF Len(ls) = 1 THEN ls[1]
    ELSE ls[1] \o <<10>> \o JoinLines(Tail(ls))

(***************************************************************************)
(* The format / value model (ClipboardFormat, ClipboardData, ImageData)     *)
(***************************************************************************)

Format(kind) == [kind |-> kind, name |-> ""]
Special(name) == [kind |-> "Special", name |-> name]

ImageRgba(w, h, bytes) == [enc |-> "Rgba", width |-> w, height |-> h, bytes |-> bytes]
ImagePng(bytes) == [enc |-> "Png", bytes |-> bytes]
ImageSvg(s) == [enc |-> "Svg", svg |-> s]

DataText(s) == [tag |-> "Text", text |-> s]
DataHtml(s) == [tag |-> "Html", text |-> s]
DataRtf(s) == [tag |-> "Rtf", text |-> s]
DataImage(img) == [tag |-> "Image", image |-> img]
DataFileUrl(urls) == [tag |-> "FileUrl", urls |-> urls]
DataSpecial(name, bytes) == [tag |-> "Special", name |-> name, bytes |-> bytes]
DataNone == [tag |-> "None"]

NoError == [kind |-> "NoError", description |-> ""]

(***************************************************************************)
(* The image codec.  A PNG stream is the signature, the width, the height   *)
(* and the pixels; anything else is malformed.                              *)
(***************************************************************************)

PNG_SIGNATURE == <<137, 80>>

encode_as_png(image) ==
    IF Len(image.bytes) # image.width * image.height * 4
        THEN Err(ConversionFailure)
        ELSE Ok(PNG_SIGNATURE \o <<image.width, image.height>> \o image.bytes)

decode_from_png(buffer) ==
    IF /\ Len(buffer) >= 4
       /\ SubSeq(buffer, 1, 2) = PNG_SIGNATURE
       /\ Len(buffer) = 4 + buffer[3] * buffer[4] * 4
        THEN Ok(ImageRgba(buffer[3], buffer[4], SubSeq(buffer, 5, Len(buffer))))
        ELSE Err(ConversionFailure)

(***************************************************************************)
(* Wayland: the single-format reads                                         *)
(***************************************************************************)

WaylandSelections == {"Clipboard", "Primary"}
LinuxClipboardKind == {"Clipboard", "Primary", "Secondary"}

\* The native layer serves the selection: it is one try_into accepts, and the
\* compositor supports it.
SelectionUsable(selection) ==
    /\ selection \in WaylandSelections
    /\ selection = "Primary" => primarySupported

\* try_into mapping every selection it accepts to the regular clipboard.
try_into_regular(selection) ==
    IF selection = "Secondary" THEN Err(ClipboardNotSupported) ELSE Ok("Clipboard")

\* try_into serving Secondary from the regular clipboard.
try_into_substituting(selection) ==
    IF selection = "Secondary" THEN Ok("Clipboard") ELSE Ok(selection)

\* TryInto<paste::ClipboardType> / TryInto<copy::ClipboardType>
try_into(selection) ==
    IF selection = "Secondary" THEN Err(ClipboardNotSupported) ELSE Ok(selection)

\* wl_clipboard_rs::paste::get_contents on the current offer of the selection.
\* fault "paste" is a native failure of the request itself.
get_contents(selection, mime, fault) ==
    IF selection = "Primary" /\ ~primarySupported THEN Err("PrimarySelectionUnsupported")
    ELSE IF fault = "paste" THEN Err("Other")
    ELSE IF DOMAIN clip[selection] = {} THEN Err("ClipboardEmpty")
    ELSE IF mime \notin DOMAIN clip[selection] THEN Err("NoMimeType")
    ELSE Ok(clip[selection][mime])

\* pipe.read_to_end; fault "pipe" is a failure while reading the pipe.
read_to_end(pipe, fault) ==
    IF fault = "pipe" THEN Err(into_unknown("failed to read pipe")) ELSE Ok(pipe)

from_utf8(contents) ==
    IF ValidUtf8(contents) THEN Ok(contents)
    ELSE Err(into_unknown("failed to convert from utf8"))

PasteErrorToString(e) == Unknown(e)

\* get_plain taking only the empty clipboard, not the absent MIME type, for
\* content that is not available.
get_plain_empty_only(selection, mime_type, fault) ==
    LET sel == try_into(selection) IN
    IF ~IsOk(sel) THEN sel
    ELSE LET result == get_contents(sel.val, mime_type, fault) IN
        IF IsOk(result)
            THEN LET contents == read_to_end(result.val, fault) IN
                 IF IsOk(contents) THEN from_utf8(contents.val) ELSE contents
        ELSE IF result.err \in {"ClipboardEmpty"} THEN Err(ContentNotAvailable)
        ELSE IF result.err = "PrimarySelectionUnsupported" THEN Err(ClipboardNotSupported)
        ELSE Err(PasteErrorToString(result.err))

get_plain(selection, mime_type, fault) ==
    LET sel == try_into(selection) IN
    IF ~IsOk(sel) THEN sel
    ELSE LET result == get_contents(sel.val, mime_type, fault) IN
        IF IsOk(result)
            THEN LET contents == read_to_end(result.val, fault) IN
                 IF IsOk(contents) THEN from_utf8(contents.val) ELSE contents
        ELSE IF result.err \in {"ClipboardEmpty", "NoMimeType"} THEN Err(ContentNotAvailable)
        ELSE IF result.err = "PrimarySelectionUnsupported" THEN Err(ClipboardNotSupported)
        ELSE Err(PasteErrorToString(result.err))

get_text(selection, fault) == get_plain(selection, MIME_TEXT, fault)
get_rtf(selection, fault) == get_plain(selection, MIME_RTF, fault)
get_html(selection, fault) == get_plain(selection, MIME_HTML, fault)
get_url_list(selection, fault) == get_plain(selection, MIME_URL_LIST, fault)

\* The shape shared by get_image_rgba, get_image_png, get_image_svg and
\* get_special: read the bytes of one MIME type, then convert them.
get_bytes(selection, mime, fault) ==
    LET sel == try_into(selection) IN
    IF ~IsOk(sel) THEN sel
    ELSE LET result == get_contents(sel.val, mime, fault) IN
        IF IsOk(result) THEN read_to_end(result.val, fault)
        ELSE IF result.err \in {"ClipboardEmpty", "NoMimeType"} THEN Err(ContentNotAvailable)
        ELSE Err(PasteErrorToString(result.err))

get_image_rgba(selection, fault) ==
    LET buffer == get_bytes(selection, MIME_PNG, fault) IN
    IF ~IsOk(buffer) THEN buffer
    ELSE LET image_data == decode_from_png(buffer.val) IN
        IF IsOk(image_data) THEN Ok(image_data.val) ELSE image_data

get_image_png(selection, fault) ==
    LET buffer == get_bytes(selection, MIME_PNG, fault) IN
    IF ~IsOk(buffer) THEN buffer ELSE Ok(ImagePng(buffer.val))

get_image_svg(selection, fault) ==
    LET buffer == get_bytes(selection, MIME_SVG, fault) IN
    IF ~IsOk(buffer) THEN buffer
    ELSE LET svg == from_utf8(buffer.val) IN
        IF IsOk(svg) THEN Ok(ImageSvg(svg.val)) ELSE svg

get_special(format_name, selection, fault) == get_bytes(selection, format_name, fault)

(***************************************************************************)
(* Wayland: Clipboard::get_formats                                          *)
(***************************************************************************)

\* The getter each match arm of get_formats calls.
ReadFormat(format, selection, fault) ==
    CASE format.kind = "Text" -> get_text(selection, fault)
      [] format.kind = "Rtf" -> get_rtf(selection, fault)
      [] format.kind = "Html" -> get_html(selection, fault)
      [] format.kind = "ImageRgba" -> get_image_rgba(selection, fault)
      [] format.kind = "ImagePng" -> get_image_png(selection, fault)
      [] format.kind = "ImageSvg" -> get_image_svg(selection, fault)
      [] format.kind = "FileUrl" -> get_url_list(selection, fault)
      [] format.kind = "Special" -> get_special(format.name, selection, fault)

\* Wrap with the Rtf arm building the variant of the Html arm.
WrapRtfAsHtml(format, val) ==
    CASE format.kind = "Text" -> DataText(val)
      [] format.kind = "Rtf" -> DataHtml(val)
      [] format.kind = "Html" -> DataHtml(val)
      [] format.kind \in {"ImageRgba", "ImagePng", "ImageSvg"} -> DataImage(val)
      [] format.kind = "FileUrl" -> DataFileUrl(val)
      [] format.kind = "Special" -> DataSpecial(format.name, val)

\* The ClipboardData variant an arm builds from the value its getter returned.
Wrap(format, val) ==
    CASE format.kind = "Text" -> DataText(val)
      [] format.kind = "Rtf" -> DataRtf(val)
      [] format.kind = "Html" -> DataHtml(val)
      [] format.kind \in {"ImageRgba", "ImagePng", "ImageSvg"} -> DataImage(val)
      [] format.kind = "FileUrl" -> DataFileUrl(val)
      [] format.kind = "Special" -> DataSpecial(format.name, val)

Push(acc, data) == [acc EXCEPT !.results = Append(@, data)]

\* RecordError without results.push(None).
RecordErrorNoPush(acc, e) ==
    [results |-> acc.results, err |-> e, err_count |-> acc.err_count + 1]

\* Err(e) => { results.push(None); err = Some(e); err_count += 1; }
RecordError(acc, e) ==
    [results |-> Append(acc.results, DataNone), err |-> e, err_count |-> acc.err_count + 1]

\* get_formats_arm without the ContentNotAvailable arm: absence is recorded.
get_formats_arm_absent_recorded(acc, format, selection, fault) ==
    LET r == ReadFormat(format, selection, fault) IN
    IF IsOk(r)
        THEN IF format.kind = "FileUrl"
            THEN LET urls == parse_uri_list(r.val) IN
                 IF IsOk(urls) THEN Ok(Push(acc, Wrap(format, urls.val))) ELSE urls
            ELSE Ok(Push(acc, Wrap(format, r.val)))
    ELSE Ok(RecordError(acc, r.err))

\* One iteration of the loop: Ok(acc) to go on, Err(e) when `?` returns early.
get_formats_arm(acc, format, selection, fault) ==
    LET r == ReadFormat(format, selection, fault) IN
    IF IsOk(r)
        THEN IF format.kind = "FileUrl"
            THEN LET urls == parse_uri_list(r.val) IN
                 IF IsOk(urls) THEN Ok(Push(acc, Wrap(format, urls.val))) ELSE urls
            ELSE Ok(Push(acc, Wrap(format, r.val)))
    ELSE IF r.err = ContentNotAvailable THEN Ok(Push(acc, DataNone))
    ELSE Ok(RecordError(acc, r.err))

RECURSIVE get_formats_loop(_, _, _, _)
get_formats_loop(acc, formats, selection, faults) ==
    IF formats = <<>> THEN Ok(acc)
    ELSE LET next == get_formats_arm(acc, formats[1], selection, faults[1]) IN
        IF IsOk(next)
            THEN get_formats_loop(next.val, Tail(formats), selection, Tail(faults))
            ELSE next

Returned(ok, results, err, err_count) ==
    [ok |-> ok, results |-> results, err |-> err, err_count |-> err_count]

\* The final check failing as soon as one error was recorded.
get_formats_result_any_error_fails(formats, done) ==
    IF ~IsOk(done) THEN Returned(FALSE, <<>>, done.err, 0)
    ELSE IF done.val.err_count > 0
        THEN Returned(FALSE, <<>>, done.val.err, done.val.err_count)
    ELSE Returned(TRUE, done.val.results, NoError, done.val.err_count)

\* What get_formats returns once the loop is done: the early return of `?`,
\* or the check `if err_count == formats.len() { if let Some(e) = err ... }`.
get_formats_result(formats, done) ==
    IF ~IsOk(done) THEN Returned(FALSE, <<>>, done.err, 0)
    ELSE IF done.val.err_count = Len(formats) /\ done.val.err # NoError
        THEN Returned(FALSE, <<>>, done.val.err, done.val.err_count)
    ELSE Returned(TRUE, done.val.results, NoError, done.val.err_count)

get_formats(formats, selection, faults) ==
    get_formats_result(formats,
        get_formats_loop([results |-> <<>>, err |-> NoError, err_count |-> 0],
                         formats, selection, faults))

(***************************************************************************)
(* macOS: the pasteboard is a sequence of items; an item maps each of its   *)
(* types to bytes.                                                          *)
(***************************************************************************)

NSPasteboardTypeString == "public.utf8-plain-text"
NSPasteboardTypeRTF == "public.rtf"
NSPasteboardTypeHTML == "public.html"
NSPasteboardTypePNG == "public.png"
NSPasteboardTypeTIFF == "public.tiff"
NSPasteboardTypeFileURL == "public.file-url"
NS_PASTEBOARD_TYPE_SVG == "public.svg-image"

None == [st |-> "none"]
IsSome(r) == r.st = "ok"

\* NSPasteboardItem dataForType / stringForType
item_dataForType(item, type) == IF type \in DOMAIN item THEN Ok(item[type]) ELSE None

item_stringForType(item, type) ==
    IF type \in DOMAIN item /\ ValidUtf8(item[type]) THEN Ok(item[type]) ELSE None

\* NSPasteboard dataForType / stringForType: the first item that has the type.
RECURSIVE pasteboard_dataForType(_, _)
pasteboard_dataForType(items, type) ==
    IF items = <<>> THEN None
    ELSE IF IsSome(item_dataForType(items[1], type)) THEN item_dataForType(items[1], type)
    ELSE pasteboard_dataForType(Tail(items), type)

RECURSIVE pasteboard_stringForType(_, _)
pasteboard_stringForType(items, type) ==
    IF items = <<>> THEN None
    ELSE IF IsSome(item_stringForType(items[1], type)) THEN item_stringForType(items[1], type)
    ELSE pasteboard_stringForType(Tail(items), type)

\* A TIFF stream, like a PNG stream, is a signature, the size and the pixels.
TIFF_SIGNATURE == <<73, 73>>

decode_tiff(buffer) ==
    IF /\ Len(buffer) >= 4
       /\ SubSeq(buffer, 1, 2) = TIFF_SIGNATURE
       /\ Len(buffer) = 4 + buffer[3] * buffer[4] * 4
        THEN Ok(ImageRgba(buffer[3], buffer[4], SubSeq(buffer, 5, Len(buffer))))
        ELSE Err(into_unknown("failed to decode tiff"))

image_tiff ==
    LET image_data == pasteboard_dataForType(pasteboard, NSPasteboardTypeTIFF) IN
    IF ~IsSome(image_data) THEN Err(ContentNotAvailable) ELSE decode_tiff(image_data.val)

osx_image_png ==
    LET image_data == pasteboard_dataForType(pasteboard, NSPasteboardTypePNG) IN
    IF ~IsSome(image_data) THEN Err(ContentNotAvailable) ELSE Ok(ImagePng(image_data.val))

osx_image_svg ==
    LET image_data == pasteboard_stringForType(pasteboard, NS_PASTEBOARD_TYPE_SVG) IN
    IF ~IsSome(image_data) THEN Err(ContentNotAvailable) ELSE Ok(ImageSvg(image_data.val))

\* NSURL::URLWithString: nil unless every byte is a URL character and every
\* "%" starts an escape.
RECURSIVE IsUrlString(_)
IsUrlString(s) ==
    IF s = <<>> THEN TRUE
    ELSE IF s[1] = 37
        THEN /\ Len(s) >= 3
             /\ HexVal(s[2]) >= 0
             /\ HexVal(s[3]) >= 0
             /\ IsUrlString(SubSeq(s, 4, Len(s)))
    ELSE s[1] > 32 /\ s[1] < 127 /\ IsUrlString(Tail(s))

URLWithString(s) == IF s # <<>> /\ IsUrlString(s) THEN Ok(s) ELSE None

\* NSURL path: the unescaped path of a file URL.
NSURL_path(url) ==
    IF StartsWith(url, FILE_SCHEME) /\ Len(url) > Len(FILE_SCHEME)
        THEN LET p == percent_decode(SubSeq(url, Len(FILE_SCHEME) + 1, Len(url))) IN
             IF ValidUtf8(p) THEN Ok(p) ELSE None
        ELSE None

(***************************************************************************)
(* macOS: Get::formats                                                      *)
(***************************************************************************)

\* The body of `for item in contents.iter()` for one item.  st holds the
\* results vector and file_urls; brk says whether the arm ended in `break`.
Scanned(results, file_urls, brk) == [results |-> results, file_urls |-> file_urls, brk |-> brk]

PushImage(st, r) ==
    IF IsOk(r) THEN Scanned(Append(st.results, DataImage(r.val)), st.file_urls, TRUE)
    ELSE IF r.err = ContentNotAvailable THEN Scanned(st.results, st.file_urls, FALSE)
    ELSE Scanned(st.results, st.file_urls, TRUE)

PushString(st, string, data) ==
    IF IsSome(string) THEN Scanned(Append(st.results, data), st.file_urls, TRUE)
    ELSE Scanned(st.results, st.file_urls, FALSE)

formats_item(st, format, item) ==
    CASE format.kind = "Text" ->
            LET string == item_stringForType(item, NSPasteboardTypeString) IN
            PushString(st, string, DataText(IF IsSome(string) THEN string.val ELSE <<>>))
      [] format.kind = "Rtf" ->
            LET string == item_stringForType(item, NSPasteboardTypeRTF) IN
            PushString(st, string, DataRtf(IF IsSome(string) THEN string.val ELSE <<>>))
      [] format.kind = "Html" ->
            LET string == item_stringForType(item, NSPasteboardTypeHTML) IN
            PushString(st, string, DataHtml(IF IsSome(string) THEN string.val ELSE <<>>))
      [] format.kind = "ImageRgba" -> PushImage(st, image_tiff)
      [] format.kind = "ImagePng" -> PushImage(st, osx_image_png)
      [] format.kind = "ImageSvg" -> PushImage(st, osx_image_svg)
      [] format.kind = "FileUrl" ->
            LET urls == item_stringForType(item, NSPasteboardTypeFileURL) IN
            IF ~IsSome(urls) THEN Scanned(st.results, st.file_urls, FALSE)
            ELSE LET url == URLWithString(urls.val) IN
                IF ~IsSome(url) THEN Scanned(st.results, st.file_urls, TRUE)
                ELSE LET path == NSURL_path(url.val) IN
                    IF IsSome(path)
                        THEN Scanned(st.results, Append(st.file_urls, path.val), FALSE)
                        ELSE Scanned(st.results, st.file_urls, FALSE)
      [] format.kind = "Special" ->
            LET data == item_dataForType(item, format.name) IN
            PushString(st, data,
                DataSpecial(format.name, IF IsSome(data) THEN data.val ELSE <<>>))

RECURSIVE formats_items(_, _, _)
formats_items(st, format, items) ==
    IF items = <<>> THEN st
    ELSE LET next == formats_item(st, format, items[1]) IN
        IF next.brk THEN next ELSE formats_items(next, format, Tail(items))

\* One iteration of `for format in formats`.
formats_format(results, format, contents) ==
    LET pre_size == Len(results)
        scanned == formats_items(Scanned(results, <<>>, FALSE), format, contents)
        with_urls ==
            IF scanned.file_urls # <<>>
                THEN Append(scanned.results, DataFileUrl(scanned.file_urls))
                ELSE scanned.results
    IN  IF Len(with_urls) = pre_size THEN Append(with_urls, DataNone) ELSE with_urls

RECURSIVE formats_loop(_, _, _)
formats_loop(results, formats, contents) ==
    IF formats = <<>> THEN results
    ELSE formats_loop(formats_format(results, formats[1], contents), Tail(formats), contents)

\* Get::formats raising an error when no requested format gave a value, as
\* get_formats of wayland.rs does when every item recorded an error.
osx_formats_fails_when_all_none(formats, items_nil) ==
    IF items_nil
        THEN Returned(FALSE, <<>>, Unknown("NSPasteboard#pasteboardItems errored"), 0)
    ELSE IF /\ formats # <<>>
            /\ \A i \in 1..Len(formats) :
                   formats_loop(<<>>, formats, pasteboard)[i] = DataNone
        THEN Returned(FALSE, <<>>, ContentNotAvailable, Len(formats))
    ELSE Returned(TRUE, formats_loop(<<>>, formats, pasteboard), NoError, 0)

\* items_nil: NSPasteboard#pasteboardItems returned nil.
osx_formats(formats, items_nil) ==
    IF items_nil
        THEN Returned(FALSE, <<>>, Unknown("NSPasteboard#pasteboardItems errored"), 0)
        ELSE Returned(TRUE, formats_loop(<<>>, formats, pasteboard), NoError, 0)

(***************************************************************************)
(* Wayland: Clipboard::set_formats                                          *)
(***************************************************************************)

MimeSource(mime_type, source) == [mime_type |-> mime_type, source |-> source]

text_to_mime_source(text) == MimeSource(MIME_TEXT, text)
rtf_to_mime_source(rtf) == MimeSource(MIME_RTF, rtf)
\* html_to_mime_source offering the markup as plain text.
html_to_mime_source_as_text(html) == MimeSource(MIME_TEXT, html)

html_to_mime_source(html) == MimeSource(MIME_HTML, html)
png_to_mime_source(png) == MimeSource(MIME_PNG, png)
svg_to_mime_source(svg) == MimeSource(MIME_SVG, svg)
special_to_mime_source(format_name, data) == MimeSource(format_name, data)

url_list_to_mime_source(urls) ==
    MimeSource(MIME_URL_LIST, JoinLines([i \in 1..Len(urls) |-> encode_path_to_uri(urls[i])]))

\* set_formats_item with a None value rejected instead of skipped.
set_formats_item_rejects_none(sources, item) ==
    CASE item.tag = "Text" -> Ok(Append(sources, text_to_mime_source(item.text)))
      [] item.tag = "Rtf" -> Ok(Append(sources, rtf_to_mime_source(item.text)))
      [] item.tag = "Html" -> Ok(Append(sources, html_to_mime_source(item.text)))
      [] item.tag = "Image" /\ item.image.enc = "Rgba" ->
            LET png == encode_as_png(item.image) IN
            IF IsOk(png) THEN Ok(Append(sources, png_to_mime_source(png.val))) ELSE png
      [] item.tag = "Image" /\ item.image.enc = "Png" ->
            Ok(Append(sources, png_to_mime_source(item.image.bytes)))
      [] item.tag = "Image" /\ item.image.enc = "Svg" ->
            Ok(Append(sources, svg_to_mime_source(item.image.svg)))
      [] item.tag = "FileUrl" -> Ok(Append(sources, url_list_to_mime_source(item.urls)))
      [] item.tag = "Special" ->
            Ok(Append(sources, special_to_mime_source(item.name, item.bytes)))
      [] OTHER -> Err(ConversionFailure)

\* One iteration of `for item in data`: Ok(sources), or Err(e) when `?` returns.
set_formats_item(sources, item) ==
    CASE item.tag = "Text" -> Ok(Append(sources, text_to_mime_source(item.text)))
      [] item.tag = "Rtf" -> Ok(Append(sources, rtf_to_mime_source(item.text)))
      [] item.tag = "Html" -> Ok(Append(sources, html_to_mime_source(item.text)))
      [] item.tag = "Image" /\ item.image.enc = "Rgba" ->
            LET png == encode_as_png(item.image) IN
            IF IsOk(png) THEN Ok(Append(sources, png_to_mime_source(png.val))) ELSE png
      [] item.tag = "Image" /\ item.image.enc = "Png" ->
            Ok(Append(sources, png_to_mime_source(item.image.bytes)))
      [] item.tag = "Image" /\ item.image.enc = "Svg" ->
            Ok(Append(sources, svg_to_mime_source(item.image.svg)))
      [] item.tag = "FileUrl" -> Ok(Append(sources, url_list_to_mime_source(item.urls)))
      [] item.tag = "Special" ->
            Ok(Append(sources, special_to_mime_source(item.name, item.bytes)))
      [] OTHER -> Ok(sources)

\* The loop of set_formats going on to the next item when the translation of
\* an item fails, instead of returning the error.
RECURSIVE set_formats_sources_skipping_failures(_, _)
set_formats_sources_skipping_failures(sources, data) ==
    IF data = <<>> THEN Ok(sources)
    ELSE LET next == set_formats_item(sources, data[1]) IN
        IF IsOk(next) THEN set_formats_sources_skipping_failures(next.val, Tail(data))
        ELSE set_formats_sources_skipping_failures(sources, Tail(data))

RECURSIVE set_formats_sources(_, _)
set_formats_sources(sources, data) ==
    IF data = <<>> THEN Ok(sources)
    ELSE LET next == set_formats_item(sources, data[1]) IN
        IF IsOk(next) THEN set_formats_sources(next.val, Tail(data)) ELSE next

SourceMimes(sources) == {sources[i].mime_type : i \in 1..Len(sources)}

\* The offers copy_multi can install for the sources: one representation per
\* MIME type, taken from a source of that type.
NativeOffers(sources) ==
    {offer \in [SourceMimes(sources) ->
                    {sources[i].source : i \in 1..Len(sources)}] :
        \A m \in SourceMimes(sources) :
            \E i \in 1..Len(sources) :
                sources[i].mime_type = m /\ sources[i].source = offer[m]}

\* copy_multi installing the new sources beside the representations already
\* on the selection.
copy_multi_merging(old, offer) == offer @@ old

\* copy_multi installing one representation of the offer only.
copy_multi_first_only(old, offer) ==
    IF DOMAIN offer = {} THEN offer
    ELSE LET m == CHOOSE t \in DOMAIN offer : TRUE IN (m :> offer[m])

\* What the selection holds after copy_multi installed the offer.
copy_multi(old, offer) == offer

\* set_multi_source up to the native call: Err(e) without a native call, or
\* Ok(fault) when copy_multi is called; fault "copy" is its native failure.
set_multi_source(selection, fault) ==
    LET sel == try_into(selection) IN
    IF ~IsOk(sel) THEN [native |-> FALSE, ret |-> sel]
    ELSE IF sel.val = "Primary" /\ ~primarySupported
        THEN [native |-> TRUE, ret |-> Err(ClipboardNotSupported)]
    ELSE IF fault = "copy"
        THEN [native |-> TRUE, ret |-> Err(into_unknown("failed to copy multi sources"))]
    ELSE [native |-> TRUE, ret |-> Ok(sel.val)]

(***************************************************************************)
(* macOS: Set::formats                                                      *)
(***************************************************************************)

\* url_encode::ENCODE_SET: CONTROLS.add(b' ').add(b'-').add(b'%')
OSX_ENCODE_SET(b) == b < 32 \/ b = 127 \/ b = 32 \/ b = 45 \/ b = 37

RECURSIVE osx_percent_encode(_)
osx_percent_encode(s) ==
    IF s = <<>> THEN <<>>
    ELSE LET b == s[1] IN
        (IF b >= 128 \/ OSX_ENCODE_SET(b)
            THEN <<37, HexDigit(b \div 16), HexDigit(b % 16)>>
            ELSE <<b>>) \o osx_percent_encode(Tail(s))

osx_encode_path_to_uri(path) == FILE_SCHEME \o osx_percent_encode(path)

\* The pasteboard item an NSImage made by image_from_pixels writes.
image_from_pixels(pixels, width, height) ==
    (NSPasteboardTypeTIFF :> (TIFF_SIGNATURE \o <<width, height>> \o pixels))

\* One iteration of `for d in data`; nsdata_null: dataWithBytes returned null.
osx_formats_item(write_objects, d, nsdata_null) ==
    CASE d.tag = "Text" -> Ok(Append(write_objects, (NSPasteboardTypeString :> d.text)))
      [] d.tag = "Rtf" -> Ok(Append(write_objects, (NSPasteboardTypeRTF :> d.text)))
      [] d.tag = "Html" -> Ok(Append(write_objects, (NSPasteboardTypeHTML :> d.text)))
      [] d.tag = "Image" /\ d.image.enc = "Rgba" ->
            Ok(Append(write_objects,
                      image_from_pixels(d.image.bytes, d.image.width, d.image.height)))
      [] d.tag = "Image" /\ d.image.enc = "Png" ->
            IF nsdata_null THEN Err(Unknown("Failed to create NSData from bytes"))
            ELSE Ok(Append(write_objects, (NSPasteboardTypePNG :> d.image.bytes)))
      [] d.tag = "Image" /\ d.image.enc = "Svg" ->
            Ok(Append(write_objects, (NS_PASTEBOARD_TYPE_SVG :> d.image.svg)))
      [] d.tag = "FileUrl" ->
            Ok(write_objects \o
                [i \in 1..Len(d.urls) |->
                    (NSPasteboardTypeFileURL :> osx_encode_path_to_uri(d.urls[i]))])
      [] d.tag = "Special" ->
            IF nsdata_null THEN Err(Unknown("Failed to create NSData from bytes"))
            ELSE Ok(Append(write_objects, (d.name :> d.bytes)))
      [] OTHER -> Ok(write_objects)

RECURSIVE osx_formats_objects(_, _, _)
osx_formats_objects(write_objects, data, nsdata_null) ==
    IF data = <<>> THEN Ok(write_objects)
    ELSE LET next == osx_formats_item(write_objects, data[1], nsdata_null) IN
        IF IsOk(next) THEN osx_formats_objects(next.val, Tail(data), nsdata_null) ELSE next

\* Clipboard::clear
clear == <<>>

\* Set::formats without the clear: the objects are written after the items
\* already on the pasteboard.
osx_set_formats_no_clear(old, data, fault) ==
    LET cleared == old
        objects == osx_formats_objects(<<>>, data, fault = "nsdata_null")
    IN  IF ~IsOk(objects) THEN [pasteboard |-> cleared, ret |-> objects]
        ELSE IF fault = "write_false"
            THEN [pasteboard |-> cleared,
                  ret |-> Err(Unknown("NSPasteboard#writeObjects: returned false"))]
        ELSE [pasteboard |-> cleared \o objects.val, ret |-> Ok(<<>>)]

\* Set::formats: the pasteboard it leaves behind and what it returns.
\* fault "write_false": writeObjects returned false.
osx_set_formats(old, data, fault) ==
    LET cleared == clear
        objects == osx_formats_objects(<<>>, data, fault = "nsdata_null")
    IN  IF ~IsOk(objects) THEN [pasteboard |-> cleared, ret |-> objects]
        ELSE IF fault = "write_false"
            THEN [pasteboard |-> cleared,
                  ret |-> Err(Unknown("NSPasteboard#writeObjects: returned false"))]
        ELSE [pasteboard |-> cleared \o objects.val, ret |-> Ok(<<>>)]

(***************************************************************************)
(* Inputs: request lists, native faults, and what other applications put    *)
(* on the clipboard                                                         *)
(***************************************************************************)

MaxFormats == 3

SpecialNames == {"x-test/marker"}

Formats ==
    {Format(k) : k \in {"Text", "Html", "Rtf", "ImageRgba", "ImagePng", "ImageSvg", "FileUrl"}}
        \cup {Special(n) : n \in SpecialNames}

RequestLists == UNION {[1..n -> Formats] : n \in 0..MaxFormats}

\* At most one native failure per call: of the request ("paste") or of the
\* transfer ("pipe"), at one position.
FaultSeqs(n) ==
    {[i \in 1..n |-> "none"]}
        \cup {[i \in 1..n |-> IF i = k THEN f ELSE "none"] : k \in 1..n, f \in {"paste", "pipe"}}

\* "hi", "<b>hi</b>", "<svg/>"
TEXT_HI == <<104, 105>>
HTML_HI == <<60, 98, 62, 104, 105, 60, 47, 98, 62>>
SVG_DOC == <<60, 115, 118, 103, 47, 62>>
\* "{\rtf1}"
RTF_DOC == <<123, 92, 114, 116, 102, 49, 125>>
\* a byte sequence that is not UTF-8
NOT_UTF8 == <<255>>
\* a 1x1 image and its PNG and TIFF streams
PIXEL == <<1, 2, 3, 4>>
PNG_1X1 == PNG_SIGNATURE \o <<1, 1>> \o PIXEL
TIFF_1X1 == TIFF_SIGNATURE \o <<1, 1>> \o PIXEL
NOT_AN_IMAGE == <<0>>
\* "file:///a" NL "file:///b%20c" NL
URI_LIST == <<102, 105, 108, 101, 58, 47, 47, 47, 97, 10,
              102, 105, 108, 101, 58, 47, 47, 47, 98, 37, 50, 48, 99, 10>>
\* "file://%FF": the escape decodes to a byte that is not UTF-8
URI_NOT_UTF8 == <<102, 105, 108, 101, 58, 47, 47, 37, 70, 70>>
\* "file:///a", "file:///b%20c", "file:///a b" as single URLs
URL_A == <<102, 105, 108, 101, 58, 47, 47, 47, 97>>
URL_B == <<102, 105, 108, 101, 58, 47, 47, 47, 98, 37, 50, 48, 99>>
URL_SPACE == <<102, 105, 108, 101, 58, 47, 47, 47, 97, 32, 98>>
MARKER == <<7, 8, 9>>

EmptyOffer == <<>>

\* Everything readable, no RTF.
OfferGood ==
    (MIME_TEXT :> TEXT_HI) @@ (MIME_HTML :> HTML_HI) @@ (MIME_PNG :> PNG_1X1)
        @@ (MIME_SVG :> SVG_DOC) @@ (MIME_URL_LIST :> URI_LIST)
        @@ ("x-test/marker" :> MARKER)

\* Readable text and RTF beside representations that do not convert: markup
\* and SVG that are not UTF-8, a PNG that does not decode, and a URI list whose
\* escape is not UTF-8.
OfferMixed ==
    (MIME_TEXT :> TEXT_HI) @@ (MIME_RTF :> RTF_DOC) @@ (MIME_HTML :> NOT_UTF8)
        @@ (MIME_SVG :> NOT_UTF8) @@ (MIME_PNG :> NOT_AN_IMAGE)
        @@ (MIME_URL_LIST :> URI_NOT_UTF8)

ExternalOffers == {EmptyOffer, OfferGood, OfferMixed}

PasteboardGood ==
    << (NSPasteboardTypeString :> TEXT_HI) @@ (NSPasteboardTypeHTML :> HTML_HI),
       (NSPasteboardTypeFileURL :> URL_A),
       (NSPasteboardTypeFileURL :> URL_B) @@ (NSPasteboardTypeString :> HTML_HI),
       (NSPasteboardTypePNG :> PNG_1X1) @@ (NS_PASTEBOARD_TYPE_SVG :> SVG_DOC)
           @@ ("x-test/marker" :> MARKER),
       (NSPasteboardTypeTIFF :> TIFF_1X1) >>

PasteboardBroken ==
    << (NSPasteboardTypeTIFF :> NOT_AN_IMAGE) @@ (NSPasteboardTypeFileURL :> URL_A),
       (NSPasteboardTypeFileURL :> URL_SPACE) @@ (NSPasteboardTypeString :> NOT_UTF8),
       (NSPasteboardTypeFileURL :> URL_B) @@ (NSPasteboardTypeRTF :> TEXT_HI) >>

ExternalPasteboards == {<<>>, PasteboardGood, PasteboardBroken}

\* The values and the (format, value) pairs callers hand to set_formats.
\* "/a", "/b c"
PATH_A == <<47, 97>>
PATH_B_C == <<47, 98, 32, 99>>
RGBA_1X1 == ImageRgba(1, 1, PIXEL)
\* a pixel buffer shorter than width * height * 4
RGBA_SHORT == ImageRgba(1, 1, <<1>>)

Pair(format, data) == [format |-> format, data |-> data]

WriteBatches ==
    { <<>>,
      <<Pair(Format("Text"), DataText(TEXT_HI))>>,
      <<Pair(Format("Text"), DataText(TEXT_HI)), Pair(Format("Html"), DataHtml(HTML_HI))>>,
      <<Pair(Format("Html"), DataHtml(HTML_HI)), Pair(Format("Rtf"), DataRtf(RTF_DOC))>>,
      <<Pair(Format("ImagePng"), DataImage(ImagePng(PNG_1X1))),
        Pair(Special("x-test/marker"), DataSpecial("x-test/marker", MARKER))>>,
      <<Pair(Format("ImagePng"), DataImage(ImagePng(NOT_AN_IMAGE)))>>,
      <<Pair(Format("Rtf"), DataNone), Pair(Format("Text"), DataText(TEXT_HI))>>,
      <<Pair(Format("Text"), DataHtml(HTML_HI))>>,
      <<Pair(Format("ImageRgba"), DataImage(RGBA_1X1)),
        Pair(Format("ImageSvg"), DataImage(ImageSvg(SVG_DOC)))>>,
      <<Pair(Format("Text"), DataText(TEXT_HI)), Pair(Format("ImageRgba"), DataImage(RGBA_SHORT))>>,
      <<Pair(Format("FileUrl"), DataFileUrl(<<PATH_A, PATH_B_C>>))>> }

\* WaitConfig, as the setters receive it.
WaitConfigs == {"Forever", "Until", "None"}

(***************************************************************************)
(* The state machine                                                        *)
(***************************************************************************)

Idle == [state |-> "Idle", data |-> <<>>]
Offering(data) == [state |-> "Offering", data |-> data]
Superseded == [state |-> "Superseded", data |-> <<>>]

\* The record of a call: its arguments, what it returned and, for get_formats
\* on Wayland, `reads`: what the read of each requested item came to.
Call(op, selection, formats, faults, data, ret, reads) ==
    [op |-> op, selection |-> selection, formats |-> formats, faults |-> faults,
     data |-> data, ok |-> ret.ok, results |-> ret.results, err |-> ret.err,
     err_count |-> ret.err_count, reads |-> reads]

\* What the read of one requested item comes to: the getter's result and, for
\* FileUrl, the parse of the list it returned.
ItemRead(format, selection, fault) ==
    IF format.kind = "FileUrl" /\ IsOk(ReadFormat(format, selection, fault))
        THEN parse_uri_list(ReadFormat(format, selection, fault).val)
        ELSE ReadFormat(format, selection, fault)

ItemReads(formats, selection, faults) ==
    [i \in 1..Len(formats) |-> ItemRead(formats[i], selection, faults[i])]

Unit == Returned(TRUE, <<>>, NoError, 0)

NoCall == Call("none", "Clipboard", <<>>, <<>>, <<>>, Unit, <<>>)

Init ==
    /\ platform \in {"wayland", "osx"}
    /\ primarySupported \in BOOLEAN
    /\ platform = "osx" => ~primarySupported
    /\ clip = [s \in WaylandSelections |-> EmptyOffer]
    /\ pasteboard = <<>>
    /\ offered = [s \in WaylandSelections |-> Idle]
    /\ call = NoCall

\* Another application takes a Wayland selection over, or clears it.
ExternalWrite ==
    /\ platform = "wayland"
    /\ call = NoCall
    /\ \E selection \in WaylandSelections, offer \in ExternalOffers :
        /\ selection = "Primary" => primarySupported
        /\ clip' = [clip EXCEPT ![selection] = offer]
        /\ offered' = [offered EXCEPT ![selection] =
                          IF @.state = "Offering" THEN Superseded ELSE @]
    /\ UNCHANGED <<platform, primarySupported, pasteboard, call>>

\* Another application writes the macOS pasteboard, or clears it.
ExternalWriteOsx ==
    /\ platform = "osx"
    /\ call = NoCall
    /\ \E items \in ExternalPasteboards :
        /\ pasteboard' = items
        /\ offered' = [offered EXCEPT !["Clipboard"] =
                          IF @.state = "Offering" THEN Superseded ELSE @]
    /\ UNCHANGED <<platform, primarySupported, clip, call>>

\* Clipboard::get_formats (wayland.rs)
GetFormats ==
    /\ platform = "wayland"
    /\ call = NoCall
    /\ \E formats \in RequestLists, selection \in LinuxClipboardKind :
        \E faults \in IF SelectionUsable(selection)
                          THEN FaultSeqs(Len(formats))
                          ELSE {[i \in 1..Len(formats) |-> "none"]} :
            call' = Call("get_formats", selection, formats, faults, <<>>,
                         get_formats(formats, selection, faults),
                         ItemReads(formats, selection, faults))
    /\ UNCHANGED <<platform, primarySupported, clip, pasteboard, offered>>

\* Get::formats (osx.rs)
GetFormatsOsx ==
    /\ platform = "osx"
    /\ call = NoCall
    /\ \E formats \in RequestLists, items_nil \in BOOLEAN :
        call' = Call("get_formats", "Clipboard", formats,
                     IF items_nil THEN <<"items_nil">> ELSE <<>>, <<>>,
                     osx_formats(formats, items_nil), <<>>)
    /\ UNCHANGED <<platform, primarySupported, clip, pasteboard, offered>>

\* The record of a set_formats call: `native` says whether the native write was
\* called, `replaced` is what this process offered on the selection before.
SetCall(selection, items, fault, native, replaced, ret) ==
    [op |-> "set_formats", selection |-> selection,
     formats |-> [i \in 1..Len(items) |-> items[i].format], faults |-> <<fault>>,
     data |-> [i \in 1..Len(items) |-> items[i].data],
     ok |-> IsOk(ret), results |-> <<>>, err |-> IF IsOk(ret) THEN NoError ELSE ret.err,
     err_count |-> 0, reads |-> <<>>, native |-> native, replaced |-> replaced]

\* The native copy never asked to serve in the foreground.
foreground_never(wait) == FALSE

\* The native copy asked to serve in the foreground for every wait.
foreground_always(wait) == TRUE

\* opts.foreground(matches!(wait, WaitConfig::Forever)): the native copy
\* serves the selection in the calling thread, and returns when the selection
\* is taken over, only for Forever.
foreground(wait) == wait = "Forever"

\* Clipboard::set_formats (wayland.rs), called as examples/hello_formats.rs
\* calls it: the caller holds (format, value) pairs and passes the values.
\* `pending` says the native copy serves the selection in the foreground and
\* the call has not returned.
SetFormatsWith(waits) ==
    /\ platform = "wayland"
    /\ call = NoCall
    /\ \E items \in WriteBatches, selection \in LinuxClipboardKind, fault \in {"none", "copy"},
          wait \in waits :
        LET data == [i \in 1..Len(items) |-> items[i].data]
            sources == set_formats_sources(<<>>, data)
            replaced == IF selection \in WaylandSelections THEN offered[selection] ELSE Idle
            returned == [wait |-> wait, pending |-> FALSE]
        IN  IF ~IsOk(sources)
                THEN /\ call' = SetCall(selection, items, fault, FALSE, replaced, sources)
                                    @@ returned
                     /\ UNCHANGED <<clip, offered>>
            ELSE LET set == set_multi_source(selection, fault) IN
                IF ~IsOk(set.ret)
                    THEN /\ call' = SetCall(selection, items, fault, set.native, replaced, set.ret)
                                        @@ returned
                         /\ UNCHANGED <<clip, offered>>
                    ELSE \E offer \in NativeOffers(sources.val) :
                        /\ clip' = [clip EXCEPT ![selection] = copy_multi(@, offer)]
                        /\ offered' = [offered EXCEPT ![selection] = Offering(data)]
                        /\ call' = SetCall(selection, items, fault, TRUE, replaced, Ok(<<>>))
                                       @@ [wait |-> wait, pending |-> foreground(wait)]
    /\ UNCHANGED <<platform, primarySupported, pasteboard>>

\* set_formats with a wait other than Forever: the call returns at once.
SetFormats == SetFormatsWith({"None"})

\* set_formats with any wait.
SetFormatsWait == SetFormatsWith(WaitConfigs)

\* Set::formats (osx.rs)
SetFormatsOsx ==
    /\ platform = "osx"
    /\ call = NoCall
    /\ \E items \in WriteBatches, fault \in {"none", "write_false", "nsdata_null"} :
        LET data == [i \in 1..Len(items) |-> items[i].data]
            set == osx_set_formats(pasteboard, data, fault)
        IN  /\ pasteboard' = set.pasteboard
            /\ offered' = [offered EXCEPT !["Clipboard"] =
                              IF IsOk(set.ret) THEN Offering(data) ELSE Idle]
            /\ call' = SetCall("Clipboard", items, fault, TRUE, offered["Clipboard"], set.ret)
    /\ UNCHANGED <<platform, primarySupported, clip>>

\* Clipboard::get_formats (wayland.rs) when no native read fails.
ReadBack ==
    /\ platform = "wayland"
    /\ call = NoCall
    /\ \E formats \in RequestLists, selection \in WaylandSelections :
        LET faults == [i \in 1..Len(formats) |-> "none"] IN
        call' = Call("get_formats", selection, formats, faults, <<>>,
                     get_formats(formats, selection, faults),
                     ItemReads(formats, selection, faults))
    /\ UNCHANGED <<platform, primarySupported, clip, pasteboard, offered>>

\* The caller takes the result of the call; the next call can start.
Return ==
    /\ call # NoCall
    /\ "pending" \in DOMAIN call => ~call.pending
    /\ call' = NoCall
    /\ UNCHANGED <<platform, primarySupported, clip, pasteboard, offered>>

Next ==
    \/ ExternalWrite
    \/ ExternalWriteOsx
    \/ GetFormats
    \/ GetFormatsOsx
    \/ Return

Spec == Init /\ [][Next]_vars

\* Writes by this process and the reads that follow them.
NextRW ==
    \/ SetFormats
    \/ SetFormatsOsx
    \/ ReadBack
    \/ GetFormatsOsx
    \/ Return

SpecRW == Init /\ [][NextRW]_vars

(***************************************************************************)
(* Reading one format on its own, as the properties below speak of it       *)
(***************************************************************************)

\* What reading one format yields on Wayland: the getter, and for FileUrl
\* the decoding of the list it returned.
Positions == 1..Len(call.formats)
Got(i) == call.reads[i]
IsValue(i) == IsOk(Got(i))
IsAbsent(i) == Got(i) = Err(ContentNotAvailable)
IsError(i) == ~IsOk(Got(i)) /\ Got(i).err # ContentNotAvailable
\* the URI list was read and its decoding failed
IsDecodeFailure(i) ==
    /\ call.formats[i].kind = "FileUrl"
    /\ ~IsOk(Got(i))
    /\ IsOk(ReadFormat(call.formats[i], call.selection, call.faults[i]))

WaylandGet == platform = "wayland" /\ call.op = "get_formats"
OsxGet == platform = "osx" /\ call.op = "get_formats"

ExpectedWayland(i) == IF IsValue(i) THEN Wrap(call.formats[i], Got(i).val) ELSE DataNone

\* What Get::formats returns for the one-format request <<format>>.
OsxSingle(format) == formats_loop(<<>>, <<format>>, pasteboard)

\* The tag of a value is the tag of the format.
TagMatches(format, data) ==
    CASE format.kind = "Text" -> data.tag = "Text"
      [] format.kind = "Html" -> data.tag = "Html"
      [] format.kind = "Rtf" -> data.tag = "Rtf"
      [] format.kind = "ImageRgba" -> data.tag = "Image" /\ data.image.enc = "Rgba"
      [] format.kind = "ImagePng" -> data.tag = "Image" /\ data.image.enc = "Png"
      [] format.kind = "ImageSvg" -> data.tag = "Image" /\ data.image.enc = "Svg"
      [] format.kind = "FileUrl" -> data.tag = "FileUrl"
      [] format.kind = "Special" -> data.tag = "Special" /\ data.name = format.name

(***************************************************************************)
(* Properties                                                               *)
(***************************************************************************)

\* C1: a successful get_formats returns exactly one entry per requested
\* format, in request order: entry i is the value read for format i, or None.
C1_OneEntryPerRequest ==
    (call.op = "get_formats" /\ call.ok) =>
        /\ Len(call.results) = Len(call.formats)
        /\ \A i \in Positions :
            IF platform = "wayland"
                THEN call.results[i] = ExpectedWayland(i)
                ELSE /\ Len(OsxSingle(call.formats[i])) = 1
                     /\ call.results[i] = OsxSingle(call.formats[i])[1]

\* a successful three-format request that repeats a format, with a value, a
\* downgraded error and the value again
C1_Witness ==
    /\ WaylandGet
    /\ call.ok
    /\ Len(call.formats) = 3
    /\ call.formats[1] = call.formats[3]
    /\ call.results[1] # DataNone
    /\ IsError(2)
    /\ call.results[2] = DataNone
    /\ call.results[3] = call.results[1]

\* the same on macOS: a repeated format, and an absent format between
C1_WitnessOsx ==
    /\ OsxGet
    /\ call.ok
    /\ Len(call.formats) = 3
    /\ call.formats[1] = call.formats[3]
    /\ call.results[1].tag = "FileUrl"
    /\ call.results[2] = DataNone

\* C2: a format whose read reports ContentNotAvailable yields None at its
\* position and is not counted as an error; absent, value, absent returns
\* <<None, value, None>> without an error.
C2_AbsentIsNoneNotError ==
    WaylandGet =>
        /\ call.ok => \A i \in Positions : IsAbsent(i) => call.results[i] = DataNone
        /\ (\A i \in Positions : ~IsDecodeFailure(i)) =>
            /\ call.err_count = Cardinality({i \in Positions : IsError(i)})
            /\ (\E i \in Positions : IsAbsent(i)) => call.ok
        /\ (Len(call.formats) = 3 /\ IsAbsent(1) /\ IsValue(2) /\ IsAbsent(3)) =>
            /\ call.ok
            /\ call.results = <<DataNone, ExpectedWayland(2), DataNone>>
            /\ call.results[2] # DataNone

C2_Witness ==
    /\ WaylandGet
    /\ call.ok
    /\ Len(call.formats) = 3
    /\ IsAbsent(1) /\ IsValue(2) /\ IsAbsent(3)
    /\ call.results[1] = DataNone /\ call.results[2] # DataNone /\ call.results[3] = DataNone
    /\ call.err_count = 0

\* C3: get_formats fails if and only if every requested item produced a
\* recorded error (an error other than ContentNotAvailable).
C3_FailsIffAllItemsFailed ==
    (WaylandGet /\ Len(call.formats) >= 1) =>
        (~call.ok <=> \A i \in Positions : IsError(i))

\* C4: when every requested item produced a recorded error, the error
\* returned is the first recorded one.
C4_FirstRecordedError ==
    (WaylandGet /\ Len(call.formats) >= 1 /\ ~call.ok
        /\ \A i \in Positions : IsError(i) /\ ~IsDecodeFailure(i)) =>
            call.err = Got(1).err

\* C5 as stated: a batch of N >= 1 formats, each absent or failing, raises
\* an error instead of returning all None.
C5_AllAbsentOrFailingRaises ==
    (call.op = "get_formats" /\ platform = "wayland" /\ Len(call.formats) >= 1
        /\ \A i \in Positions : IsAbsent(i) \/ IsError(i)) =>
            ~call.ok

\* C5 amended: on Wayland a batch of N >= 1 formats raises an error when every
\* item failed with an error other than ContentNotAvailable; a batch whose
\* items are all absent, or absent and failing, returns all None; so does every
\* macOS batch whose item list was obtained.
C5_AllFailingRaises ==
    /\ (WaylandGet /\ Len(call.formats) >= 1) =>
        /\ (\A i \in Positions : IsError(i)) => (~call.ok /\ call.err # NoError)
        /\ ((\A i \in Positions : IsAbsent(i) \/ (IsError(i) /\ ~IsDecodeFailure(i)))
                /\ (\E i \in Positions : IsAbsent(i))) =>
            (call.ok /\ call.results = [i \in Positions |-> DataNone])
    /\ (OsxGet /\ call.faults = <<>>) => call.ok

\* every item failed and the call failed
C5_Witness ==
    /\ WaylandGet
    /\ Len(call.formats) = 3
    /\ \A i \in Positions : IsError(i)
    /\ call.selection = "Clipboard"
    /\ ~call.ok

\* every item absent and the call returned all None
C5_WitnessAllAbsent ==
    /\ WaylandGet
    /\ Len(call.formats) = 3
    /\ \A i \in Positions : IsAbsent(i)
    /\ call.ok
    /\ call.results = <<DataNone, DataNone, DataNone>>

\* C6: an item error other than ContentNotAvailable, a URI-list decode
\* failure included, becomes None at its position and never aborts the batch:
\* when some item succeeded, the call succeeds with the values collected.
C6_ErrorsNeverAbort ==
    (WaylandGet /\ \E i \in Positions : IsValue(i)) =>
        /\ call.ok
        /\ Len(call.results) = Len(call.formats)
        /\ \A i \in Positions : call.results[i] = ExpectedWayland(i)

\* C7: every entry other than None carries the tag of the format requested
\* at its position.
C7_TagMatchesRequest ==
    (call.op = "get_formats" /\ call.ok) =>
        /\ Len(call.results) = Len(call.formats)
        /\ \A i \in Positions :
            call.results[i] # DataNone => TagMatches(call.formats[i], call.results[i])

\* three values of three different tags
C7_Witness ==
    /\ WaylandGet
    /\ call.ok
    /\ call.formats = <<Format("Html"), Format("ImageRgba"), Special("x-test/marker")>>
    /\ \A i \in Positions : call.results[i] # DataNone

C7_WitnessOsx ==
    /\ OsxGet
    /\ call.ok
    /\ call.formats = <<Format("ImageRgba"), Format("FileUrl"), Format("Html")>>
    /\ \A i \in Positions : call.results[i] # DataNone

(***************************************************************************)
(* Writes                                                                   *)
(***************************************************************************)

WaylandSet == platform = "wayland" /\ call.op = "set_formats"
OsxSet == platform = "osx" /\ call.op = "set_formats"
DataPositions == 1..Len(call.data)

\* The format a value belongs to by its own tag.
FormatOfValue(d) ==
    CASE d.tag = "Text" -> Format("Text")
      [] d.tag = "Html" -> Format("Html")
      [] d.tag = "Rtf" -> Format("Rtf")
      [] d.tag = "Image" -> Format("Image" \o d.image.enc)
      [] d.tag = "FileUrl" -> Format("FileUrl")
      [] d.tag = "Special" -> Special(d.name)
      [] OTHER -> Format("None")

\* The native representation a read of the format consults.
RepresentationOf(format) ==
    IF platform = "wayland"
        THEN CASE format.kind = "Text" -> MIME_TEXT
               [] format.kind = "Html" -> MIME_HTML
               [] format.kind = "Rtf" -> MIME_RTF
               [] format.kind \in {"ImageRgba", "ImagePng"} -> MIME_PNG
               [] format.kind = "ImageSvg" -> MIME_SVG
               [] format.kind = "FileUrl" -> MIME_URL_LIST
               [] format.kind = "Special" -> format.name
               [] OTHER -> ""
        ELSE CASE format.kind = "Text" -> NSPasteboardTypeString
               [] format.kind = "Html" -> NSPasteboardTypeHTML
               [] format.kind = "Rtf" -> NSPasteboardTypeRTF
               [] format.kind = "ImageRgba" -> NSPasteboardTypeTIFF
               [] format.kind = "ImagePng" -> NSPasteboardTypePNG
               [] format.kind = "ImageSvg" -> NS_PASTEBOARD_TYPE_SVG
               [] format.kind = "FileUrl" -> NSPasteboardTypeFileURL
               [] format.kind = "Special" -> format.name
               [] OTHER -> ""

\* The representations a batch of values writes.
RepresentationsOf(data) ==
    {RepresentationOf(FormatOfValue(data[i])) : i \in {j \in 1..Len(data) : data[j].tag # "None"}}

\* A read of the one format reports it absent.
ReadsAbsent(format, selection) ==
    IF platform = "wayland"
        THEN ReadFormat(format, selection, "none") = Err(ContentNotAvailable)
        ELSE OsxSingle(format) = <<DataNone>>

\* The pixel buffer of every RGBA value has width * height * 4 bytes.
RgbaWellFormed(data) ==
    \A i \in 1..Len(data) :
        (data[i].tag = "Image" /\ data[i].image.enc = "Rgba") =>
            Len(data[i].image.bytes) = data[i].image.width * data[i].image.height * 4

\* Some pair of the call is a mismatch: the value is None or of another format.
SomeMismatch == \E i \in DataPositions : ~TagMatches(call.formats[i], call.data[i])

\* C8 (as stated): set_formats validates every (format, value) pair and, on a
\* mismatch (a None value included), fails before any native call is made.
C8_MismatchFailsBeforeNativeCall ==
    (call.op = "set_formats" /\ SomeMismatch) => (~call.ok /\ ~call.native)

\* C8 (amended): set_formats receives the values alone and validates no pairing.
\* Each value is translated by its own tag and a None value is skipped, so when
\* the selection is usable, the native write succeeds and every RGBA buffer is
\* well formed, the call makes the native write and succeeds, and the selection
\* then offers exactly the representations of the values that are not None.
C8_NoTagValidation ==
    /\ (WaylandSet /\ call.faults = <<"none">> /\ SelectionUsable(call.selection)
            /\ RgbaWellFormed(call.data))
        => /\ call.ok
           /\ call.native
           /\ DOMAIN clip[call.selection] = RepresentationsOf(call.data)
    /\ (OsxSet /\ call.faults = <<"none">>)
        => /\ call.ok
           /\ {RepresentationOf(FormatOfValue(call.data[i])) : i \in
                   {j \in DataPositions : call.data[j].tag \notin {"None", "FileUrl"}}}
               \subseteq UNION {DOMAIN pasteboard[k] : k \in 1..Len(pasteboard)}

\* A batch holding a None value paired with Rtf was written natively.
C8_Witness ==
    /\ WaylandSet
    /\ call.ok
    /\ call.native
    /\ \E i \in DataPositions : call.data[i] = DataNone /\ call.formats[i] = Format("Rtf")
    /\ DOMAIN clip[call.selection] = {MIME_TEXT}

\* The representations the selection offers natively.
NativeRepresentations(selection) ==
    IF platform = "wayland" THEN DOMAIN clip[selection]
    ELSE UNION {DOMAIN pasteboard[k] : k \in 1..Len(pasteboard)}

\* C9: a successful set_formats on a selection this process already wrote
\* replaces what the selection offers: afterwards the selection holds exactly
\* the representations of the second call, and a format whose representation
\* only the first call wrote reads as absent.
C9_WriteSupersedesInFull ==
    (call.op = "set_formats" /\ call.ok /\ call.replaced.state = "Offering")
        => /\ NativeRepresentations(call.selection) = RepresentationsOf(call.data)
           /\ \A format \in Formats :
               RepresentationOf(format) \notin RepresentationsOf(call.data)
                   => ReadsAbsent(format, call.selection)

\* A second write that drops a representation the first one offered.
C9_Witness ==
    /\ WaylandSet
    /\ call.ok
    /\ call.replaced.state = "Offering"
    /\ call.replaced.data = <<DataText(TEXT_HI), DataHtml(HTML_HI)>>
    /\ call.data = <<DataImage(ImagePng(PNG_1X1)), DataSpecial("x-test/marker", MARKER)>>
    /\ ReadsAbsent(Format("Html"), call.selection)

C9_WitnessOsx ==
    /\ OsxSet
    /\ call.ok
    /\ call.replaced.state = "Offering"
    /\ call.replaced.data = <<DataText(TEXT_HI), DataHtml(HTML_HI)>>
    /\ call.data = <<DataText(TEXT_HI)>>
    /\ ReadsAbsent(Format("Html"), call.selection)

\* What this process wrote last on the selection of the call, still offered.
Written == offered[call.selection].data

\* The values are of the formats that round-trip losslessly, one per format.
LosslessBatch(data) ==
    /\ \A i \in 1..Len(data) :
        \/ data[i].tag \in {"Text", "Html", "Rtf", "Special"}
        \/ data[i].tag = "Image" /\ data[i].image.enc = "Png"
    /\ \A i, j \in 1..Len(data) :
        FormatOfValue(data[i]) = FormatOfValue(data[j]) => i = j

\* A get_formats with no native fault, on a selection that still offers a
\* lossless batch written by this process.
ReadOfLosslessWrite ==
    /\ call.op = "get_formats"
    /\ SelectionUsable(call.selection)
    /\ \A i \in 1..Len(call.faults) : call.faults[i] = "none"
    /\ offered[call.selection].state = "Offering"
    /\ Written # <<>>
    /\ LosslessBatch(Written)

WasWritten(format) == \E i \in 1..Len(Written) : FormatOfValue(Written[i]) = format
ValueWritten(format) ==
    Written[CHOOSE i \in 1..Len(Written) : FormatOfValue(Written[i]) = format]

\* The request is for RGBA pixels and the selection offers a PNG on Wayland.
RgbaOfWrittenPng(format) ==
    /\ platform = "wayland"
    /\ format.kind = "ImageRgba"
    /\ WasWritten(Format("ImagePng"))

DecodedPng == decode_from_png(ValueWritten(Format("ImagePng")).image.bytes)

\* C10 (as stated): after a successful lossless write and no other write,
\* get_formats returns at each position the value written for the format, and
\* None for every requested format that was not written.
C10_ExactValueOrNone ==
    ReadOfLosslessWrite
        => /\ call.ok
           /\ \A i \in Positions :
               call.results[i] = IF WasWritten(call.formats[i])
                                    THEN ValueWritten(call.formats[i])
                                    ELSE DataNone

\* C10 (amended): as stated, except that on Wayland ImageRgba reads the PNG
\* representation: requested after a PNG was written it yields the decoded
\* pixels, or, when the PNG does not decode, an error that is recorded as None
\* and fails the call when every requested item is such a read.
C10_LosslessRoundTrip ==
    ReadOfLosslessWrite
        => \/ /\ call.ok
              /\ \A i \in Positions :
                  call.results[i] =
                      IF WasWritten(call.formats[i]) THEN ValueWritten(call.formats[i])
                      ELSE IF RgbaOfWrittenPng(call.formats[i]) /\ IsOk(DecodedPng)
                          THEN DataImage(DecodedPng.val)
                      ELSE DataNone
           \/ /\ ~call.ok
              /\ call.formats # <<>>
              /\ call.err = ConversionFailure
              /\ \A i \in Positions :
                  RgbaOfWrittenPng(call.formats[i]) /\ ~IsOk(DecodedPng)

\* set_formats([Text "hi", Html "<b>hi</b>"]) then get_formats([Text, Html, Rtf])
C10_Witness ==
    /\ ReadOfLosslessWrite
    /\ platform = "wayland"
    /\ Written = <<DataText(TEXT_HI), DataHtml(HTML_HI)>>
    /\ call.formats = <<Format("Text"), Format("Html"), Format("Rtf")>>
    /\ call.ok
    /\ call.results = <<DataText(TEXT_HI), DataHtml(HTML_HI), DataNone>>

\* A PNG and a special format written, then the PNG read back as pixels.
C10_WitnessRgba ==
    /\ ReadOfLosslessWrite
    /\ Written = <<DataImage(ImagePng(PNG_1X1)), DataSpecial("x-test/marker", MARKER)>>
    /\ call.formats = <<Format("ImageRgba"), Special("x-test/marker"), Format("ImagePng")>>
    /\ call.results = <<DataImage(RGBA_1X1), DataSpecial("x-test/marker", MARKER),
                        DataImage(ImagePng(PNG_1X1))>>

(***************************************************************************)
(* The single-format operations                                             *)
(***************************************************************************)

\* opts.copy adding the source to the selection without replacing a
\* representation the selection already holds.
copy_keeping_old(clips, selection, source) ==
    [clips EXCEPT ![selection] = @ @@ (source.mime_type :> source.source)]

\* What the selections hold after opts.copy installed the source: the one
\* representation of the source, on the selection of the options.
copy(clips, selection, source) ==
    [clips EXCEPT ![selection] = (source.mime_type :> source.source)]

\* set_source up to the native call: Err(e) without a native call, or
\* Ok(selection) when copy is called; fault "copy" is its native failure.
set_source(selection, fault) ==
    LET sel == try_into(selection) IN
    IF ~IsOk(sel) THEN [native |-> FALSE, ret |-> sel]
    ELSE IF sel.val = "Primary" /\ ~primarySupported
        THEN [native |-> TRUE, ret |-> Err(ClipboardNotSupported)]
    ELSE IF fault = "copy"
        THEN [native |-> TRUE, ret |-> Err(into_unknown("failed to copy clipboard"))]
    ELSE [native |-> TRUE, ret |-> Ok(sel.val)]

\* get_image falling back to the PNG read on every error of the SVG read.
get_image_any_error_falls_back(selection, svg_fault, png_fault) ==
    LET svg == get_image_svg(selection, svg_fault) IN
    IF ~IsOk(svg)
        THEN [requests |-> <<MIME_SVG, MIME_PNG>>, ret |-> get_image_png(selection, png_fault)]
    ELSE [requests |-> IF IsOk(try_into(selection)) THEN <<MIME_SVG>> ELSE <<>>,
          ret |-> svg]

\* Clipboard::get_image with the native requests it made: the SVG read, and
\* the PNG read when the SVG read says the content is not available.
get_image(selection, svg_fault, png_fault) ==
    LET svg == get_image_svg(selection, svg_fault) IN
    IF svg = Err(ContentNotAvailable)
        THEN [requests |-> <<MIME_SVG, MIME_PNG>>, ret |-> get_image_png(selection, png_fault)]
    ELSE [requests |-> IF IsOk(try_into(selection)) THEN <<MIME_SVG>> ELSE <<>>,
          ret |-> svg]

\* Get::plain (osx.rs): the string of the first item that has the type.
osx_plain(type, items_nil) ==
    IF items_nil THEN Err(Unknown("NSPasteboard#pasteboardItems errored"))
    ELSE IF IsSome(pasteboard_stringForType(pasteboard, type))
        THEN Ok(pasteboard_stringForType(pasteboard, type).val)
    ELSE Err(ContentNotAvailable)

\* Get::special (osx.rs): the data of the first item that has the type.
osx_special(format_name, items_nil) ==
    IF items_nil THEN Err(Unknown("NSPasteboard#pasteboardItems errored"))
    ELSE IF IsSome(pasteboard_dataForType(pasteboard, format_name))
        THEN Ok(pasteboard_dataForType(pasteboard, format_name).val)
    ELSE Err(ContentNotAvailable)

\* Get::image (osx.rs) with the reads it made: SVG, then PNG, then TIFF.
osx_image ==
    IF osx_image_svg # Err(ContentNotAvailable)
        THEN [requests |-> <<NS_PASTEBOARD_TYPE_SVG>>, ret |-> osx_image_svg]
    ELSE IF osx_image_png # Err(ContentNotAvailable)
        THEN [requests |-> <<NS_PASTEBOARD_TYPE_SVG, NSPasteboardTypePNG>>,
              ret |-> osx_image_png]
    ELSE [requests |-> <<NS_PASTEBOARD_TYPE_SVG, NSPasteboardTypePNG, NSPasteboardTypeTIFF>>,
          ret |-> image_tiff]

\* Set::special_ (osx.rs) with clear = true: the pasteboard it leaves behind
\* and what it returns.  fault "set_false": setData_forType returned false.
osx_set_special(format_name, data, fault) ==
    IF fault = "nsdata_null"
        THEN [pasteboard |-> clear,
              ret |-> Err(Unknown("Failed to create NSData from bytes"))]
    ELSE IF fault = "set_false"
        THEN [pasteboard |-> clear,
              ret |-> Err(Unknown("NSPasteboard#setData_forType: returned false"))]
    ELSE [pasteboard |-> clear \o <<(format_name :> data)>>, ret |-> Ok(<<>>)]

\* The getter of each single-format read of Get (osx.rs).
OsxReadFormat(format, items_nil) ==
    CASE format.kind = "Text" -> osx_plain(NSPasteboardTypeString, items_nil)
      [] format.kind = "Rtf" -> osx_plain(NSPasteboardTypeRTF, items_nil)
      [] format.kind = "Html" -> osx_plain(NSPasteboardTypeHTML, items_nil)
      [] format.kind = "Special" -> osx_special(format.name, items_nil)

\* The record of a single-format call: `requests` are the native reads or
\* writes it made, `pending` says the call has not returned yet, `before` is
\* what the selections held when it was made.
OpCall(op, selection, format, faults, data, wait, pending, requests, ret) ==
    [op |-> op, selection |-> selection, format |-> format, faults |-> faults,
     data |-> data, wait |-> wait, pending |-> pending, requests |-> requests,
     ret |-> ret, before |-> [clip |-> clip, pasteboard |-> pasteboard]]

\* The MIME type a Wayland getter asks the native layer for.
MimeOf(format) ==
    CASE format.kind = "Text" -> MIME_TEXT
      [] format.kind = "Rtf" -> MIME_RTF
      [] format.kind = "Html" -> MIME_HTML
      [] format.kind \in {"ImageRgba", "ImagePng"} -> MIME_PNG
      [] format.kind = "ImageSvg" -> MIME_SVG
      [] format.kind = "FileUrl" -> MIME_URL_LIST
      [] format.kind = "Special" -> format.name

\* The payloads of the special format tests/get_set.rs writes.
SpecialPayloads == {MARKER, <<0>>, <<1>>}

\* The single-format setters of wayland.rs and the source each hands to
\* set_source; set_image_rgba encodes first and returns the error when the
\* encoding fails.
Setter(op, format, data, source) ==
    [op |-> op, format |-> format, data |-> data, source |-> source]

SingleWrites ==
    { Setter("set_text", Format("Text"), DataText(TEXT_HI), Ok(text_to_mime_source(TEXT_HI))),
      Setter("set_rtf", Format("Rtf"), DataRtf(RTF_DOC), Ok(rtf_to_mime_source(RTF_DOC))),
      Setter("set_html", Format("Html"), DataHtml(HTML_HI), Ok(html_to_mime_source(HTML_HI))),
      Setter("set_image_png", Format("ImagePng"), DataImage(ImagePng(PNG_1X1)),
             Ok(png_to_mime_source(PNG_1X1))),
      Setter("set_image_svg", Format("ImageSvg"), DataImage(ImageSvg(SVG_DOC)),
             Ok(svg_to_mime_source(SVG_DOC))),
      Setter("set_image_rgba", Format("ImageRgba"), DataImage(RGBA_1X1),
             Ok(png_to_mime_source(encode_as_png(RGBA_1X1).val))),
      Setter("set_image_rgba", Format("ImageRgba"), DataImage(RGBA_SHORT),
             encode_as_png(RGBA_SHORT)) }
        \cup { Setter("set_special", Special(n), DataSpecial(n, b),
                      Ok(special_to_mime_source(n, b))) :
                 n \in SpecialNames, b \in SpecialPayloads }

\* A write that was made with WaitConfig::Forever and still serves the
\* selection: the call has not returned.
Pending == call.op # "none" /\ "pending" \in DOMAIN call /\ call.pending

\* set_text, set_rtf, set_html without alt, set_image_*, set_special
\* (wayland.rs): the conversion, then set_source.
SetSingle ==
    /\ platform = "wayland"
    /\ call = NoCall
    /\ \E w \in SingleWrites, selection \in LinuxClipboardKind,
          wait \in WaitConfigs, fault \in {"none", "copy"} :
        IF ~IsOk(w.source)
            THEN /\ call' = OpCall(w.op, selection, w.format, <<fault>>, w.data, wait,
                                   FALSE, <<>>, w.source)
                 /\ UNCHANGED <<clip, offered>>
        ELSE IF ~IsOk(set_source(selection, fault).ret)
            THEN /\ call' = OpCall(w.op, selection, w.format, <<fault>>, w.data, wait, FALSE,
                                   IF set_source(selection, fault).native
                                       THEN <<w.source.val.mime_type>> ELSE <<>>,
                                   set_source(selection, fault).ret)
                 /\ UNCHANGED <<clip, offered>>
        ELSE /\ clip' = copy(clip, set_source(selection, fault).ret.val, w.source.val)
             /\ offered' = [offered EXCEPT ![selection] = Offering(<<w.data>>)]
             /\ call' = OpCall(w.op, selection, w.format, <<fault>>, w.data, wait,
                               foreground(wait), <<w.source.val.mime_type>>, Ok(<<>>))
    /\ UNCHANGED <<platform, primarySupported, pasteboard>>

\* Another application takes a selection over, or clears it, while a write
\* made with WaitConfig::Forever serves it: the native copy returns.
ExternalWriteWhileServing ==
    /\ platform = "wayland"
    /\ Pending
    /\ \E selection \in WaylandSelections, offer \in ExternalOffers :
        /\ selection = "Primary" => primarySupported
        /\ clip' = [clip EXCEPT ![selection] = offer]
        /\ offered' = [offered EXCEPT ![selection] =
                          IF @.state = "Offering" THEN Superseded ELSE @]
        /\ call' = IF selection = call.selection
                       THEN [call EXCEPT !.pending = FALSE] ELSE call
    /\ UNCHANGED <<platform, primarySupported, pasteboard>>

\* get_text, get_rtf, get_html, get_url_list, get_image_rgba, get_image_png,
\* get_image_svg, get_special (wayland.rs)
GetSingle ==
    /\ platform = "wayland"
    /\ call = NoCall
    /\ \E format \in Formats, selection \in LinuxClipboardKind,
          fault \in {"none", "paste", "pipe"} :
        call' = OpCall("get", selection, format, <<fault>>, DataNone, "None", FALSE,
                       IF IsOk(try_into(selection)) THEN <<MimeOf(format)>> ELSE <<>>,
                       ReadFormat(format, selection, fault))
    /\ UNCHANGED <<platform, primarySupported, clip, pasteboard, offered>>

\* Clipboard::get_image (wayland.rs)
GetImage ==
    /\ platform = "wayland"
    /\ call = NoCall
    /\ \E selection \in LinuxClipboardKind,
          svg_fault \in {"none", "paste", "pipe"}, png_fault \in {"none", "paste", "pipe"} :
        call' = OpCall("get_image", selection, Format("Image"), <<svg_fault, png_fault>>,
                       DataNone, "None", FALSE,
                       get_image(selection, svg_fault, png_fault).requests,
                       get_image(selection, svg_fault, png_fault).ret)
    /\ UNCHANGED <<platform, primarySupported, clip, pasteboard, offered>>

\* Set::special (osx.rs)
SetSpecialOsx ==
    /\ platform = "osx"
    /\ call = NoCall
    /\ \E n \in SpecialNames, b \in SpecialPayloads,
          fault \in {"none", "set_false", "nsdata_null"} :
        /\ pasteboard' = osx_set_special(n, b, fault).pasteboard
        /\ offered' = [offered EXCEPT !["Clipboard"] =
                          IF IsOk(osx_set_special(n, b, fault).ret)
                              THEN Offering(<<DataSpecial(n, b)>>) ELSE Idle]
        /\ call' = OpCall("set_special", "Clipboard", Special(n), <<fault>>,
                          DataSpecial(n, b), "None", FALSE, <<n>>,
                          osx_set_special(n, b, fault).ret)
    /\ UNCHANGED <<platform, primarySupported, clip>>

\* Get::text, Get::rtf, Get::html, Get::special (osx.rs)
GetSingleOsx ==
    /\ platform = "osx"
    /\ call = NoCall
    /\ \E format \in {Format("Text"), Format("Rtf"), Format("Html")}
                        \cup {Special(n) : n \in SpecialNames},
          items_nil \in BOOLEAN :
        call' = OpCall("get", "Clipboard", format,
                       IF items_nil THEN <<"items_nil">> ELSE <<"none">>,
                       DataNone, "None", FALSE, <<>>, OsxReadFormat(format, items_nil))
    /\ UNCHANGED <<platform, primarySupported, clip, pasteboard, offered>>

\* Get::image (osx.rs)
GetImageOsx ==
    /\ platform = "osx"
    /\ call = NoCall
    /\ call' = OpCall("get_image", "Clipboard", Format("Image"), <<"none">>, DataNone,
                      "None", FALSE, osx_image.requests, osx_image.ret)
    /\ UNCHANGED <<platform, primarySupported, clip, pasteboard, offered>>

\* The single-format operations, the writes of other applications, and the
\* caller taking the result of a call that returned.
NextOps ==
    \/ ExternalWrite
    \/ ExternalWriteOsx
    \/ ExternalWriteWhileServing
    \/ SetSingle
    \/ SetFormatsWait
    \/ GetSingle
    \/ GetImage
    \/ SetSpecialOsx
    \/ SetFormatsOsx
    \/ GetSingleOsx
    \/ GetImageOsx
    \/ Return

SpecOps == Init /\ [][NextOps]_vars

(***************************************************************************)
(* Properties of the single-format operations                               *)
(***************************************************************************)

\* set_special succeeded and no other application took the selection since.
WroteSpecial ==
    /\ call.op = "set_special"
    /\ IsOk(call.ret)
    /\ offered[call.selection] = Offering(<<call.data>>)

\* The read of the special format `name` on the selection of the call, when
\* no native failure occurs.
SpecialNow(name) ==
    IF platform = "wayland" THEN get_special(name, call.selection, "none")
    ELSE osx_special(name, FALSE)

ReadSpecial ==
    /\ call.op = "get"
    /\ call.format.kind = "Special"
    /\ call.faults = <<"none">>
    /\ call.selection \in WaylandSelections
    /\ offered[call.selection].state = "Offering"
    /\ Len(offered[call.selection].data) = 1
    /\ offered[call.selection].data[1].tag = "Special"
    /\ offered[call.selection].data[1].name = call.format.name

\* C11: after set_special(name, b) the read of `name` returns exactly b,
\* whatever the selection held before (the bytes of an earlier set_special of
\* the same name included): the latest write wins; and get_special returns the
\* bytes of the latest set_special this process still offers.
C11_SpecialLatestWins ==
    /\ WroteSpecial => SpecialNow(call.data.name) = Ok(call.data.bytes)
    /\ ReadSpecial => call.ret = Ok(offered[call.selection].data[1].bytes)

\* a second set_special of the same name, with other bytes, over the first
C11_Witness ==
    /\ platform = "wayland"
    /\ WroteSpecial
    /\ call.data.bytes = <<0>>
    /\ call.before.clip[call.selection] = (call.data.name :> MARKER)
    /\ clip[call.selection] = (call.data.name :> <<0>>)

C11_WitnessOsx ==
    /\ platform = "osx"
    /\ WroteSpecial
    /\ call.data.bytes = <<0>>
    /\ call.before.pasteboard = <<(call.data.name :> MARKER)>>

C11_WitnessRead == ReadSpecial /\ call.ret = Ok(<<0>>)

\* A call of this process starts: the step from no call to its record.
CallStep == call = NoCall /\ call' # NoCall

\* C12: the selections are isolated: a read or a write of this process on one
\* selection leaves the content and the offer of the other selection as they
\* were, so a later read of the other selection returns what it held before.
C12_SelectionsIsolated ==
    [][CallStep =>
          \A s \in WaylandSelections :
              s # call'.selection => clip'[s] = clip[s] /\ offered'[s] = offered[s]]_vars

\* a write to Primary succeeded beside a Clipboard another application filled
C12_Witness ==
    /\ call.op \in {"set_text", "set_special", "set_formats"}
    /\ call.selection = "Primary"
    /\ offered["Primary"].state = "Offering"
    /\ clip["Clipboard"] = OfferGood
    /\ clip["Primary"] # OfferGood

C12_WitnessClipboard ==
    /\ call.op \in {"set_text", "set_special", "set_formats"}
    /\ call.selection = "Clipboard"
    /\ offered["Clipboard"].state = "Offering"
    /\ clip["Primary"] = OfferMixed

\* What a call returned, whatever the operation.
Ret(c) ==
    IF "ret" \in DOMAIN c THEN c.ret
    ELSE IF c.ok THEN Ok(<<>>) ELSE Err(c.err)

\* The call reached the native layer.
Native(c) == IF "requests" \in DOMAIN c THEN c.requests # <<>> ELSE c.native

\* The conversion a setter makes before it looks at the selection:
\* set_image_rgba encodes the pixels, set_formats translates every item.
Conversion(c) ==
    IF c.op = "set_formats" THEN set_formats_sources(<<>>, c.data)
    ELSE IF c.op = "set_image_rgba" THEN encode_as_png(c.data.image)
    ELSE Ok(<<>>)

SecondaryStep == CallStep /\ call'.selection = "Secondary"

C13_WitnessRead ==
    /\ call.op \in {"get", "get_image"}
    /\ call.selection = "Secondary"
    /\ call.ret = Err(ClipboardNotSupported)
    /\ clip["Clipboard"] = OfferGood

\* a write to Secondary failed in the conversion
C13_WitnessConversion ==
    /\ call.op = "set_image_rgba"
    /\ call.selection = "Secondary"
    /\ call.ret # Err(ClipboardNotSupported)
    /\ ~IsOk(call.ret)

\* The pasteboard type a single-format read of Get (osx.rs) asks for.
OsxTypeOf(format) ==
    CASE format.kind = "Text" -> NSPasteboardTypeString
      [] format.kind = "Rtf" -> NSPasteboardTypeRTF
      [] format.kind = "Html" -> NSPasteboardTypeHTML
      [] format.kind = "Special" -> format.name

NoFault == \A i \in 1..Len(call.faults) : call.faults[i] = "none"

\* A read found the clipboard empty, or without the representation it asked
\* for: on Wayland the selection is served and holds no such MIME type, on
\* macOS no item of the pasteboard has the type.
ReadOfAbsent ==
    /\ NoFault
    /\ IF platform = "wayland"
           THEN /\ SelectionUsable(call.selection)
                /\ IF call.op = "get"
                       THEN MimeOf(call.format) \notin DOMAIN clip[call.selection]
                       ELSE /\ call.op = "get_image"
                            /\ DOMAIN clip[call.selection] \cap {MIME_SVG, MIME_PNG} = {}
           ELSE IF call.op = "get"
                    THEN pasteboard_dataForType(pasteboard, OsxTypeOf(call.format)) = None
                    ELSE /\ call.op = "get_image"
                         /\ \A t \in {NS_PASTEBOARD_TYPE_SVG, NSPasteboardTypePNG,
                                      NSPasteboardTypeTIFF} :
                                pasteboard_dataForType(pasteboard, t) = None

\* C14: every single-format read, and the generic image read, returns
\* ContentNotAvailable when the clipboard is empty or does not hold the
\* requested format, never Unknown or another error.
C14_AbsentIsContentNotAvailable ==
    ReadOfAbsent => call.ret = Err(ContentNotAvailable)

\* the clipboard holds content, but not the RTF that was asked for
C14_Witness ==
    /\ platform = "wayland"
    /\ ReadOfAbsent
    /\ call.op = "get"
    /\ call.format.kind = "Rtf"
    /\ clip[call.selection] = OfferGood

C14_WitnessEmpty ==
    /\ platform = "wayland"
    /\ ReadOfAbsent
    /\ call.op = "get"
    /\ call.format.kind = "Special"
    /\ clip[call.selection] = EmptyOffer

C14_WitnessOsx ==
    /\ platform = "osx"
    /\ call.op = "get"
    /\ call.format.kind = "Rtf"
    /\ pasteboard = PasteboardGood
    /\ ReadOfAbsent

C14_WitnessImage ==
    /\ platform = "wayland"
    /\ ReadOfAbsent
    /\ call.op = "get_image"
    /\ clip[call.selection] # EmptyOffer

\* A call that targets the primary selection on a compositor without
\* primary-selection support, and whose value, for a write, converts.
PrimaryUnsupportedCall ==
    /\ platform = "wayland"
    /\ call.op # "none"
    /\ call.selection = "Primary"
    /\ ~primarySupported
    /\ IsOk(Conversion(call))

\* C15: when the platform does not offer the requested selection (Primary
\* without primary-selection support), every read, whatever the format, and
\* every write fails with ClipboardNotSupported, not with Unknown or another
\* error.
C15_UnsupportedSelectionNotSupported ==
    PrimaryUnsupportedCall => Ret(call) = Err(ClipboardNotSupported)

\* get_image_png on Primary without primary-selection support: Unknown
C15_FailingInput ==
    /\ PrimaryUnsupportedCall
    /\ call.op = "get"
    /\ call.format.kind = "ImagePng"
    /\ call.faults = <<"none">>
    /\ call.ret = Err(Unknown("PrimarySelectionUnsupported"))

ReadImage == call.op = "get_image"

\* What the SVG read and the PNG read of the call's platform return on their
\* own, and the names under which the two representations are requested.
SvgRead ==
    IF platform = "wayland" THEN get_image_svg(call.selection, call.faults[1])
    ELSE osx_image_svg

PngRead ==
    IF platform = "wayland" THEN get_image_png(call.selection, call.faults[2])
    ELSE osx_image_png

SvgName == IF platform = "wayland" THEN MIME_SVG ELSE NS_PASTEBOARD_TYPE_SVG
PngName == IF platform = "wayland" THEN MIME_PNG ELSE NSPasteboardTypePNG

Requested(name) == \E i \in 1..Len(call.requests) : call.requests[i] = name

\* C16: the generic image read tries SVG first and then PNG.  It returns the
\* SVG when the SVG read succeeds, without a PNG read, even if a PNG is
\* present; it makes the PNG read only when the SVG read reports
\* ContentNotAvailable, and then returns what the PNG read returns (on macOS,
\* when the PNG read reports ContentNotAvailable too, what the TIFF read
\* returns); when the SVG read fails with another error it returns that error
\* without a PNG read.
C16_SvgThenPng ==
    ReadImage =>
        /\ SvgRead # Err(ContentNotAvailable) =>
              call.ret = SvgRead /\ ~Requested(PngName)
        /\ SvgRead = Err(ContentNotAvailable) =>
              /\ call.requests[1] = SvgName /\ call.requests[2] = PngName
              /\ IF platform = "osx" /\ PngRead = Err(ContentNotAvailable)
                     THEN call.ret = image_tiff
                     ELSE call.ret = PngRead

\* no SVG on the selection: the PNG was read and returned
C16_Witness ==
    /\ platform = "wayland"
    /\ ReadImage
    /\ call.requests = <<MIME_SVG, MIME_PNG>>
    /\ call.ret = Ok(ImagePng(PNG_1X1))

\* SVG and PNG both present: the SVG is returned
C16_WitnessSvg ==
    /\ ReadImage
    /\ call.selection \in WaylandSelections
    /\ IF platform = "wayland" THEN MIME_PNG \in DOMAIN clip[call.selection]
       ELSE IsSome(pasteboard_dataForType(pasteboard, NSPasteboardTypePNG))
    /\ call.ret = Ok(ImageSvg(SVG_DOC))

\* the SVG read failed with another error while a PNG is present
C16_WitnessError ==
    /\ platform = "wayland"
    /\ ReadImage
    /\ call.selection \in WaylandSelections
    /\ MIME_PNG \in DOMAIN clip[call.selection]
    /\ ~IsOk(call.ret)
    /\ call.ret # Err(ContentNotAvailable)
    /\ call.requests = <<MIME_SVG>>

C16_WitnessOsxPng ==
    /\ platform = "osx"
    /\ ReadImage
    /\ call.ret = Ok(ImagePng(PNG_1X1))

(***************************************************************************)
(* The URI list: what set_formats writes for FileUrl and what get_formats   *)
(* reads back                                                               *)
(***************************************************************************)

MaxPathLen == 3
MaxPaths == 2

\* '/', '%', '4', '1', ' ' and the two bytes of U+00E9
PathBytes == {47, 37, 52, 49, 32, 195, 169}

\* The path strings: valid UTF-8, no newline.
Paths == {p \in UNION {[1..n -> PathBytes] : n \in 0..MaxPathLen} : ValidUtf8(p)}

\* "file://a": a path that contains the scheme token
PATH_FILE == <<102, 105, 108, 101, 58, 47, 47, 97>>

\* The path lists: any path, followed by paths of set_formats callers.
PathLists ==
    {<<>>} \cup
    {<<p>> \o rest :
        p \in Paths \cup {PATH_FILE},
        rest \in UNION {[1..n -> {PATH_A, PATH_B_C, PATH_FILE}] : n \in 0..(MaxPaths - 1)}}

\* url_list_to_mime_source (wayland.rs) of the paths, then parse_uri_list
\* (url.rs) of the text it produced, as get_formats applies it.
UriRoundTrip ==
    /\ platform = "wayland"
    /\ call = NoCall
    /\ \E urls \in PathLists :
        call' = [op |-> "uri_list", urls |-> urls,
                 text |-> url_list_to_mime_source(urls).source,
                 ret |-> parse_uri_list(url_list_to_mime_source(urls).source)]
    /\ UNCHANGED <<platform, primarySupported, clip, pasteboard, offered>>

\* Decoding a URI list another application wrote.
MaxLines == 3

\* " file:///a", "#c", and "file:///a" with the "\r" of a "\r\n"
LINE_INDENTED == <<32>> \o URL_A
LINE_COMMENT == <<35, 99>>
LINE_CR == URL_A \o <<13>>

\* The lines of a list: URLs of files, a URL whose escape is not UTF-8, a
\* blank line, lines that do not begin with the scheme, a line that is not
\* UTF-8.
LineSamples ==
    {URL_A, URL_B, URI_NOT_UTF8, <<>>, LINE_INDENTED, LINE_COMMENT, LINE_CR, NOT_UTF8}

\* The texts: lines joined by "\n", with or without the final "\n".
UriTexts ==
    {JoinLines(ls) \o end :
        ls \in UNION {[1..n -> LineSamples] : n \in 0..MaxLines},
        end \in {<<>>, <<10>>}}

\* parse_plain_uri_list (url.rs) of the bytes of a text/uri-list offer.
ParseUriList ==
    /\ platform = "wayland"
    /\ call = NoCall
    /\ \E v \in UriTexts :
        call' = [op |-> "parse_uri_list", text |-> v, ret |-> parse_plain_uri_list(v)]
    /\ UNCHANGED <<platform, primarySupported, clip, pasteboard, offered>>

NextUri ==
    \/ UriRoundTrip
    \/ ParseUriList
    \/ Return

SpecUri == Init /\ [][NextUri]_vars

\* C17: the URI list round trip: for every list of paths that are valid UTF-8
\* and hold no newline (paths with '%', spaces, non-ASCII characters or the
\* text "file://" included), decoding the newline-joined encoding of the list
\* returns exactly the list.
C17_UriListRoundTrip ==
    call.op = "uri_list" => call.ret = Ok(call.urls)

\* the path "%41" is written as "file://%41" and read back as "A"
C17_FailingInput ==
    /\ call.op = "uri_list"
    /\ call.urls = << <<37, 52, 49>> >>
    /\ call.text = FILE_SCHEME \o <<37, 52, 49>>
    /\ call.ret = Ok(<< <<65>> >>)

\* the path "file://a" is written as "file://file://a" and read back as "a"
C17_FailingInputScheme ==
    /\ call.op = "uri_list"
    /\ call.urls = <<PATH_FILE>>
    /\ call.ret = Ok(<< <<97>> >>)

\* paths with a space and non-ASCII characters do come back
C17_RoundTripOfEscaped ==
    /\ call.op = "uri_list"
    /\ call.urls = << <<47, 195, 169>>, PATH_B_C >>
    /\ call.ret = Ok(call.urls)

\* A write that reached the native copy and was accepted by it.
Wrote(c) ==
    /\ c.op # "none"
    /\ "wait" \in DOMAIN c
    /\ IsOk(Ret(c))
    /\ Native(c)

\* C18: a write made with WaitConfig::Forever has not returned while this
\* process still offers the selection, and the only step that makes it return
\* is another application taking the selection over (a write or a clear),
\* which leaves the offer Superseded.
C18_ForeverBlocksUntilSuperseded ==
    [][/\ (Wrote(call') /\ call'.wait = "Forever"
              /\ offered'[call'.selection].state = "Offering") => call'.pending
       /\ (Pending /\ call' # call) =>
              /\ call' = [call EXCEPT !.pending = FALSE]
              /\ offered[call.selection].state = "Offering"
              /\ offered'[call.selection] = Superseded
              /\ clip'[call.selection] \in ExternalOffers]_vars

\* the write is blocked: it offers, and has not returned
C18_Witness ==
    /\ Wrote(call)
    /\ call.wait = "Forever"
    /\ call.pending
    /\ offered[call.selection].state = "Offering"

\* the write returned after another application cleared the selection
C18_WitnessReturned ==
    /\ Wrote(call)
    /\ call.wait = "Forever"
    /\ ~call.pending
    /\ offered[call.selection] = Superseded
    /\ clip[call.selection] = EmptyOffer

\* The step ends what this process offers on the selection, or changes what
\* the selection holds while this process offers it.
OfferEnds(s) ==
    /\ offered[s].state = "Offering"
    /\ offered'[s] # offered[s] \/ clip'[s] # clip[s]

\* The step is a write of this process that reached the native copy.
OwnWrite(s) ==
    /\ CallStep
    /\ call'.selection = s
    /\ "wait" \in DOMAIN call'
    /\ Native(call')

\* The step is another application taking the selection over, or clearing it.
TakenOver(s) ==
    /\ call'.op = call.op
    /\ offered'[s] = Superseded
    /\ clip'[s] \in ExternalOffers

\* C19: a write made with a wait other than Forever returns without waiting
\* for the selection to be taken over; what it wrote stays on the selection,
\* offered by this process, after the call returned, until another write of
\* this process on that selection or another application's write or clear
\* ends the offer.
C19_ReturnImmediatelyKeepsOffer ==
    [][platform = "wayland" =>
          /\ (CallStep /\ "wait" \in DOMAIN call' /\ call'.wait # "Forever")
                => ~call'.pending
          /\ \A s \in WaylandSelections :
                /\ offered'[s].state = "Offering"
                      => DOMAIN clip'[s] = RepresentationsOf(offered'[s].data)
                /\ OfferEnds(s) => OwnWrite(s) \/ TakenOver(s)]_vars

\* the write returned, the caller went on, and the text is still offered
C19_Witness ==
    /\ platform = "wayland"
    /\ call = NoCall
    /\ offered["Clipboard"] = Offering(<<DataText(TEXT_HI)>>)
    /\ clip["Clipboard"] = (MIME_TEXT :> TEXT_HI)

\* a set_formats with a wait other than Forever returned and offers
C19_WitnessMulti ==
    /\ platform = "wayland"
    /\ call.op = "set_formats"
    /\ call.wait = "Until"
    /\ ~call.pending
    /\ call.selection \in WaylandSelections
    /\ offered[call.selection] = Offering(<<DataText(TEXT_HI), DataHtml(HTML_HI)>>)

(***************************************************************************)
(* set_formats by its native calls, beside a reader of the pasteboard       *)
(***************************************************************************)

\* Set::formats (osx.rs), its first native call: self.clipboard.clear().  The
\* call has not returned: what it will return is not known yet (NoError).
\* `old` is what the pasteboard held, `seen` what a reader saw meanwhile.
SetFormatsOsxClear ==
    /\ platform = "osx"
    /\ call = NoCall
    /\ \E items \in WriteBatches, fault \in {"none", "write_false", "nsdata_null"} :
        /\ pasteboard' = clear
        /\ offered' = [offered EXCEPT !["Clipboard"] = Idle]
        /\ call' = SetCall("Clipboard", items, fault, TRUE, offered["Clipboard"], Err(NoError))
                      @@ [pending |-> TRUE, old |-> pasteboard, seen |-> <<>>]
    /\ UNCHANGED <<platform, primarySupported, clip>>

\* Another application reads the pasteboard while Set::formats runs.
ReaderOsx ==
    /\ platform = "osx"
    /\ Pending
    /\ call.seen = <<>>
    /\ call' = [call EXCEPT !.seen = <<pasteboard>>]
    /\ UNCHANGED <<platform, primarySupported, clip, pasteboard, offered>>

\* Set::formats (osx.rs), the rest: the items are translated and written by
\* one writeObjects, and the call returns.
SetFormatsOsxWrite ==
    /\ platform = "osx"
    /\ Pending
    /\ pasteboard' = osx_set_formats(pasteboard, call.data, call.faults[1]).pasteboard
    /\ offered' = [offered EXCEPT !["Clipboard"] =
                      IF IsOk(osx_set_formats(pasteboard, call.data, call.faults[1]).ret)
                          THEN Offering(call.data) ELSE Idle]
    /\ call' = [call EXCEPT
                  !.pending = FALSE,
                  !.ok = IsOk(osx_set_formats(pasteboard, call.data, call.faults[1]).ret),
                  !.err = IF IsOk(osx_set_formats(pasteboard, call.data, call.faults[1]).ret)
                              THEN NoError
                              ELSE osx_set_formats(pasteboard, call.data, call.faults[1]).ret.err]
    /\ UNCHANGED <<platform, primarySupported, clip>>

NextSteps ==
    \/ ExternalWrite
    \/ ExternalWriteOsx
    \/ SetFormats
    \/ SetFormatsOsxClear
    \/ ReaderOsx
    \/ SetFormatsOsxWrite
    \/ Return

SpecSteps == Init /\ [][NextSteps]_vars

\* A native step of a set_formats call of this process.
SetStep == call'.op = "set_formats" /\ call' # call

\* The step installed every representation of the values of the call, and
\* nothing else.
CompleteNew ==
    IF platform = "wayland"
        THEN /\ call'.ok
             /\ DOMAIN clip'[call'.selection] = RepresentationsOf(call'.data)
        ELSE pasteboard' = osx_formats_objects(<<>>, call'.data, FALSE).val

\* C20 as stated: set_formats installs its representations through a single
\* native write: every native step of the call leaves the selection with the
\* old content or with the complete new content, so that no reader sees a
\* state between the two.
C20_NoStateBetweenOldAndNew ==
    [][SetStep => (clip' = clip /\ pasteboard' = pasteboard) \/ CompleteNew]_vars

\* C20, amended: no step of set_formats leaves some but not all of the
\* representations of the call.  On Wayland the one native write takes the
\* selection from the old content to the complete new content.  On macOS the
\* pasteboard is cleared first and the items are written by one writeObjects
\* afterwards: between the two, and after a call that failed, a reader sees
\* the empty pasteboard, neither the old content nor the new.
C20_NeverPartial ==
    [][SetStep =>
          /\ \/ clip' = clip /\ pasteboard' = pasteboard
             \/ CompleteNew
             \/ platform = "osx" /\ pasteboard' = clear
          /\ platform = "wayland" /\ clip' # clip => call'.ok
          /\ platform = "osx" =>
                /\ \A i \in 1..Len(call'.seen) : call'.seen[i] = clear
                /\ (~call'.pending /\ ~call'.ok) => pasteboard' = clear
                /\ (~call'.pending /\ call'.ok) => CompleteNew]_vars

\* a reader saw the empty pasteboard between the old content and the new
C20_Witness ==
    /\ platform = "osx"
    /\ call.op = "set_formats"
    /\ "seen" \in DOMAIN call
    /\ call.seen = <<clear>>
    /\ call.old = PasteboardGood
    /\ ~call.pending
    /\ call.ok
    /\ Len(pasteboard) = 2

\* on Wayland two representations replaced the content of another application
C20_WitnessWayland ==
    /\ platform = "wayland"
    /\ call.op = "set_formats"
    /\ call.ok
    /\ call.selection \in WaylandSelections
    /\ call.replaced = Superseded
    /\ DOMAIN clip[call.selection] = {MIME_TEXT, MIME_HTML}

Parsed == call.op = "parse_uri_list" /\ ValidUtf8(call.text)

\* The lines of the text that begin with the scheme token, in line order.
Qualifying == SelectSeq(Lines(call.text), LAMBDA l : StartsWith(l, FILE_SCHEME))

\* The percent-decoded bytes of the line, after the scheme token.
DecodedBytes(l) == percent_decode(SubSeq(l, Len(FILE_SCHEME) + 1, Len(l)))

\* C21: decoding a URI list fails with ConversionFailure when the
\* percent-decoded bytes of a line that begins with "file://" are not valid
\* UTF-8.
C21_BadEscapeIsConversionFailure ==
    (Parsed /\ \E i \in 1..Len(Qualifying) : ~ValidUtf8(DecodedBytes(Qualifying[i])))
        => call.ret = Err(ConversionFailure)

\* "file:///a" NL "file://%FF": the decoding fails with Unknown
C21_FailingInput ==
    /\ Parsed
    /\ call.text = URL_A \o <<10>> \o URI_NOT_UTF8
    /\ call.ret = Err(Unknown("failed to decode path"))

\* Every line that begins with the scheme token decodes.
AllDecode == \A i \in 1..Len(Qualifying) : IsOk(parse_uri_to_path(Qualifying[i]))

\* C22: parse_uri_list returns exactly one path per line that begins with
\* "file://", in line order and with duplicates kept; the lines that do not
\* begin with the scheme token (blank lines and the empty line after a final
\* newline included) are discarded and cause no error.
C22_OnePathPerSchemeLine ==
    (Parsed /\ AllDecode) =>
        call.ret = Ok([i \in 1..Len(Qualifying) |-> parse_uri_to_path(Qualifying[i]).val])

\* a blank line between two equal URLs, and a final newline
C22_Witness ==
    /\ Parsed
    /\ call.text = URL_A \o <<10, 10>> \o URL_A \o <<10>>
    /\ call.ret = Ok(<<PATH_A, PATH_A>>)

C22_WitnessOther ==
    /\ Parsed
    /\ call.text = LINE_COMMENT \o <<10>> \o LINE_INDENTED \o <<10>> \o URL_B
    /\ call.ret = Ok(<<PATH_B_C>>)

\* The items of the pasteboard before item k give no path: they hold no file
\* URL string, or one that has no path.
NoPathBefore(k) ==
    \A j \in 1..(k - 1) :
        \/ ~IsSome(item_stringForType(pasteboard[j], NSPasteboardTypeFileURL))
        \/ /\ IsSome(URLWithString(item_stringForType(pasteboard[j], NSPasteboardTypeFileURL).val))
           /\ ~IsSome(NSURL_path(item_stringForType(pasteboard[j], NSPasteboardTypeFileURL).val))

\* The read of the format on the pasteboard gives no value: the
\* representation is absent, the image does not decode, or a file URL does
\* not convert before any path was collected.
OsxFailed(format) ==
    CASE format.kind \in {"Text", "Rtf", "Html"} ->
            ~IsSome(pasteboard_stringForType(pasteboard, RepresentationOf(format)))
      [] format.kind = "Special" -> ~IsSome(pasteboard_dataForType(pasteboard, format.name))
      [] format.kind = "ImageRgba" -> ~IsOk(image_tiff)
      [] format.kind = "ImagePng" -> ~IsOk(osx_image_png)
      [] format.kind = "ImageSvg" -> ~IsOk(osx_image_svg)
      [] format.kind = "FileUrl" ->
            \E k \in 1..Len(pasteboard) :
                /\ IsSome(item_stringForType(pasteboard[k], NSPasteboardTypeFileURL))
                /\ ~IsSome(URLWithString(
                       item_stringForType(pasteboard[k], NSPasteboardTypeFileURL).val))
                /\ NoPathBefore(k)

\* C23: Get::formats of macOS never fails because of a format: whenever the
\* pasteboard items can be obtained it returns Ok with one entry per request,
\* and the entry of a format whose read gave no value (absent, an image that
\* does not decode, a file URL that does not convert before any path was
\* collected) is None, even when that is so for every requested format.
C23_OsxFailuresAreNone ==
    (OsxGet /\ call.faults = <<>>) =>
        /\ call.ok
        /\ Len(call.results) = Len(call.formats)
        /\ \A i \in Positions : OsxFailed(call.formats[i]) => call.results[i] = DataNone

\* every requested format failed: a TIFF that does not decode, no PNG, no text
C23_Witness ==
    /\ OsxGet
    /\ pasteboard = PasteboardBroken
    /\ call.formats = <<Format("ImageRgba"), Format("ImagePng"), Format("Text")>>
    /\ call.ok
    /\ call.results = <<DataNone, DataNone, DataNone>>
    /\ ~IsOk(image_tiff)
    /\ image_tiff # Err(ContentNotAvailable)

\* Some value of the call is an Rgba image that does not encode as PNG.
RgbaFails(c) ==
    \E i \in 1..Len(c.data) :
        /\ c.data[i].tag = "Image"
        /\ c.data[i].image.enc = "Rgba"
        /\ ~IsOk(encode_as_png(c.data[i].image))

\* C24: on Wayland, when the translation of an item of set_formats fails (the
\* PNG encoding of an Rgba image), the call returns that error and makes no
\* native write: what the selections hold and offer is unchanged.
C24_TranslationFailureWritesNothing ==
    [][(platform = "wayland" /\ CallStep /\ call'.op = "set_formats" /\ RgbaFails(call'))
          => /\ ~call'.ok
             /\ call'.err = ConversionFailure
             /\ ~call'.native
             /\ clip' = clip
             /\ offered' = offered]_vars

\* the text beside the image that does not encode was not written: the
\* selection still holds what another application offered
C24_Witness ==
    /\ WaylandSet
    /\ RgbaFails(call)
    /\ call.data[1] = DataText(TEXT_HI)
    /\ ~call.ok
    /\ ~call.native
    /\ call.selection = "Clipboard"
    /\ clip["Clipboard"] = OfferMixed

\* C25: on macOS set_formats clears the pasteboard before it translates any
\* item, so a call that fails (an item does not translate, or writeObjects
\* returns false) leaves the pasteboard empty: what it held before can no
\* longer be read, and no representation of the call was installed.
C25_FailedOsxSetLeavesEmpty ==
    (OsxSet /\ ~call.ok)
        => /\ pasteboard = clear
           /\ offered["Clipboard"] = Idle
           /\ \A format \in Formats : OsxSingle(format) = <<DataNone>>

\* writeObjects returned false: the text of the previous call of this process
\* is gone, and the HTML and RTF of this call are not there
C25_Witness ==
    /\ OsxSet
    /\ ~call.ok
    /\ call.faults = <<"write_false">>
    /\ call.replaced = Offering(<<DataText(TEXT_HI)>>)
    /\ call.data = <<DataHtml(HTML_HI), DataRtf(RTF_DOC)>>
    /\ pasteboard = clear

\* an item did not translate (dataWithBytes returned null for the PNG)
C25_WitnessTranslation ==
    /\ OsxSet
    /\ ~call.ok
    /\ call.faults = <<"nsdata_null">>
    /\ call.err = Unknown("Failed to create NSData from bytes")
    /\ call.replaced = Offering(<<DataText(TEXT_HI)>>)
    /\ pasteboard = clear

====
